---------------------------- MODULE Spec2Model ----------------------------
(***************************************************************************)
(* Model of the recurring-event date engine of KasselBook                  *)
(* (lib/calendar/event-calculations.ts as written in the implementation    *)
(* plan): the Hebrew/Gregorian conversion the plan obtains from            *)
(* @hebcal/core (HDate, HebrewCalendar.getYahrzeit), the after-sunset      *)
(* handling, and calculateUpcomingBirthday / calculateUpcomingYahrzeit /   *)
(* calculateUpcomingCustomEvent.                                           *)
(*                                                                         *)
(* A JavaScript Date is modelled as a record [year, month, day, ms]: the   *)
(* local calendar date and the time elapsed since local midnight (0 for a  *)
(* date-only value).  Dates compare as their timestamps do.                *)
(* A Hebrew date is a record [yy, mm, dd]; months are numbered as HDate    *)
(* numbers them: 1 = Nisan ... 6 = Elul, 7 = Tishrei (first month of the   *)
(* year) ... 12 = Adar / Adar I, 13 = Adar II.                             *)
(***************************************************************************)
EXTENDS Integers, FiniteSets, Sequences, TLC

\* ------------------------------------------------------------------------
\* Hebrew month numbers (HDate months enum)
\* ------------------------------------------------------------------------
NISAN == 1
IYYAR == 2
TAMUZ == 4
ELUL == 6
TISHREI == 7
CHESHVAN == 8
KISLEV == 9
TEVET == 10
SHVAT == 11
ADAR_I == 12
ADAR_II == 13

\* Absolute (R.D.) day number of the day before 1 Tishrei of Hebrew year 1
EPOCH == 0 - 1373428

\* ------------------------------------------------------------------------
\* Gregorian calendar <-> absolute day number (HDate's greg2abs / abs2greg)
\* ------------------------------------------------------------------------
isGregLeapYear(year) ==
    (year % 4 = 0) /\ ((year % 100 # 0) \/ (year % 400 = 0))

toFixed(year, month, day) ==
    365 * (year - 1) + ((year - 1) \div 4) - ((year - 1) \div 100)
      + ((year - 1) \div 400)
      + ((367 * month - 362) \div 12)
      + (IF month <= 2 THEN 0 ELSE IF isGregLeapYear(year) THEN 0 - 1 ELSE 0 - 2)
      + day

greg2abs(date) == toFixed(date.year, date.month, date.day)

\* yearFromFixed, last step: n100 and n1 and the year counted from them
yearFromCycles(n100, n1, year) ==
    IF n100 # 4 /\ n1 # 4 THEN year + 1 ELSE year

\* yearFromFixed after the 400-year and 100-year cycles: d2 is the day in
\* the century, base the years before it
yearFromCentury(n100, d2, base) ==
    yearFromCycles(n100, (d2 % 1461) \div 365,
                   base + 4 * (d2 \div 1461) + ((d2 % 1461) \div 365))

\* yearFromFixed after the 400-year cycle: d1 is the day in the cycle
yearFrom400(n400, d1) ==
    yearFromCentury(d1 \div 36524, d1 % 36524,
                    400 * n400 + 100 * (d1 \div 36524))

yearFromFixed(abs) ==
    yearFrom400((abs - 1) \div 146097, (abs - 1) % 146097)

\* abs2greg once year and month are known
abs2gregDay(abs, year, month) ==
    [year |-> year, month |-> month,
     day |-> abs - toFixed(year, month, 1) + 1, ms |-> 0]

\* abs2greg once the year is known
abs2gregMonth(abs, year, correction) ==
    abs2gregDay(abs, year,
                (12 * (abs - toFixed(year, 1, 1) + correction) + 373) \div 367)

abs2gregYear(abs, year) ==
    abs2gregMonth(abs, year,
                  IF abs < toFixed(year, 3, 1) THEN 0
                  ELSE IF isGregLeapYear(year) THEN 1 ELSE 2)

abs2greg(abs) == abs2gregYear(abs, yearFromFixed(abs))

\* ------------------------------------------------------------------------
\* Hebrew calendar arithmetic (HDate's hdate-base)
\* ------------------------------------------------------------------------
\* variant: the + 1 of the leap-year formula left out
isLeapYearNoOffset(year) == (year * 7) % 19 < 7

isLeapYear(year) == (1 + year * 7) % 19 < 7

monthsInYear(year) == 12 + (IF isLeapYear(year) THEN 1 ELSE 0)

\* elapsedDays, last step: Rosh Hashana is not on Sunday, Wednesday, Friday
elapsedDaysAlt(altDay) ==
    IF altDay % 7 \in {0, 3, 5} THEN altDay + 1 ELSE altDay

\* elapsedDays once the molad's day and parts of the day are known
elapsedDaysMolad(year, parts, day) ==
    elapsedDaysAlt(
        IF \/ parts >= 19440
           \/ (day % 7 = 2 /\ parts >= 9924 /\ ~isLeapYear(year))
           \/ (day % 7 = 1 /\ parts >= 16789 /\ isLeapYear(year - 1))
        THEN day + 1 ELSE day)

\* elapsedDays once the elapsed months, parts and hours are known
elapsedDaysHours(year, mElapsed, pElapsed, hElapsed) ==
    elapsedDaysMolad(year,
                     (pElapsed % 1080) + 1080 * (hElapsed % 24),
                     1 + 29 * mElapsed + (hElapsed \div 24))

\* elapsedDays once the elapsed months and parts are known
elapsedDaysParts(year, mElapsed, pElapsed) ==
    elapsedDaysHours(year, mElapsed, pElapsed,
                     5 + 12 * mElapsed + 793 * (mElapsed \div 1080)
                       + (pElapsed \div 1080))

\* elapsedDays once the months elapsed before the year are known
elapsedDaysMonths(year, mElapsed) ==
    elapsedDaysParts(year, mElapsed, 204 + 793 * (mElapsed % 1080))

\* Days from the epoch to 1 Tishrei of the year (molad and the dehiyyot)
elapsedDays(year) ==
    elapsedDaysMonths(year,
                      235 * ((year - 1) \div 19) + 12 * ((year - 1) % 19)
                        + ((((year - 1) % 19) * 7 + 1) \div 19))

daysInYear(year) == elapsedDays(year + 1) - elapsedDays(year)

longCheshvan(year) == daysInYear(year) % 10 = 5

shortKislev(year) == daysInYear(year) % 10 = 3

daysInMonth(month, year) ==
    IF month \in {IYYAR, TAMUZ, ELUL, TEVET, ADAR_II} THEN 29
    ELSE IF \/ (month = ADAR_I /\ ~isLeapYear(year))
            \/ (month = CHESHVAN /\ ~longCheshvan(year))
            \/ (month = KISLEV /\ shortKislev(year))
         THEN 29
         ELSE 30

RECURSIVE sumDaysInMonths(_, _, _)
\* sum of daysInMonth(m, year) for m = from .. to (the for loops of hebrew2abs)
sumDaysInMonths(from, to, year) ==
    IF from > to THEN 0
    ELSE daysInMonth(from, year) + sumDaysInMonths(from + 1, to, year)

\* variant: the months Tishrei .. Adar counted as 12 in every year
hebrew2absTwelveMonths(year, month, day) ==
    EPOCH + elapsedDays(year) - 1
      + (IF month < TISHREI
         THEN day + sumDaysInMonths(TISHREI, 12, year)
                  + sumDaysInMonths(NISAN, month - 1, year)
         ELSE day + sumDaysInMonths(TISHREI, month - 1, year))

hebrew2abs(year, month, day) ==
    EPOCH + elapsedDays(year) - 1
      + (IF month < TISHREI
         THEN day + sumDaysInMonths(TISHREI, monthsInYear(year), year)
                  + sumDaysInMonths(NISAN, month - 1, year)
         ELSE day + sumDaysInMonths(TISHREI, month - 1, year))

newYear(year) == EPOCH + elapsedDays(year)

RECURSIVE yearSearch(_, _)
\* while (newYear(year) <= abs) ++year;  --year
yearSearch(year, abs) ==
    IF newYear(year) <= abs THEN yearSearch(year + 1, abs) ELSE year - 1

RECURSIVE monthSearch(_, _, _)
\* while (abs > hebrew2abs(year, month, daysInMonth(month, year))) ++month
monthSearch(year, month, abs) ==
    IF abs > hebrew2abs(year, month, daysInMonth(month, year))
    THEN monthSearch(year, month + 1, abs)
    ELSE month

\* abs2hebrew once year and month are known
abs2hebrewDay(abs, year, month) ==
    [yy |-> year, mm |-> month, dd |-> 1 + abs - hebrew2abs(year, month, 1)]

\* abs2hebrew once the year is known
abs2hebrewMonth(abs, year) ==
    abs2hebrewDay(abs, year,
                  monthSearch(year,
                              IF abs < hebrew2abs(year, 1, 1) THEN 7 ELSE 1,
                              abs))

\* the year search starts from an estimate that is not above the year
abs2hebrew(abs) ==
    abs2hebrewMonth(abs, yearSearch(1 + (((abs - EPOCH) * 100) \div 36525), abs))

\* ------------------------------------------------------------------------
\* HDate objects
\* ------------------------------------------------------------------------
RECURSIVE fix(_)
RECURSIVE fixMonth(_)
RECURSIVE fixDate(_)

\* HDate's fixMonth: Adar II of a non-leap year is Adar; month overflow
fixMonth(hd) ==
    IF hd.mm = ADAR_II /\ ~isLeapYear(hd.yy)
    THEN fix([hd EXCEPT !.mm = hd.mm - 1])
    ELSE IF hd.mm < 1
    THEN fix([hd EXCEPT !.mm = hd.mm + monthsInYear(hd.yy), !.yy = hd.yy - 1])
    ELSE IF hd.mm > monthsInYear(hd.yy)
    THEN fix([hd EXCEPT !.mm = hd.mm - monthsInYear(hd.yy), !.yy = hd.yy + 1])
    ELSE hd

\* fixDate, day < 1: borrow the days of the month (yy1: the year, one less
\* when the month is Tishrei) and step to the month before
fixDateBefore(hd, yy1) ==
    fix([yy |-> yy1, mm |-> hd.mm - 1, dd |-> hd.dd + daysInMonth(hd.mm, yy1)])

\* fixDate, day past the end of the month: drop the days of the month (yy1:
\* the year, one more when the month is Elul) and step to the next month
fixDateAfter(hd, yy1) ==
    fix([yy |-> yy1,
         mm |-> IF hd.mm = monthsInYear(yy1) THEN 1 ELSE hd.mm + 1,
         dd |-> hd.dd - daysInMonth(hd.mm, yy1)])

\* fixDate from its second test on
fixDateOver(hd) ==
    fixMonth(IF hd.dd > daysInMonth(hd.mm, hd.yy)
             THEN fixDateAfter(hd, IF hd.mm = ELUL THEN hd.yy + 1 ELSE hd.yy)
             ELSE hd)

\* HDate's fixDate: a day outside the month rolls into a neighbouring month
fixDate(hd) ==
    fixDateOver(IF hd.dd < 1
                THEN fixDateBefore(hd, IF hd.mm = TISHREI THEN hd.yy - 1 ELSE hd.yy)
                ELSE hd)

fix(hd) == fixDate(fixMonth(hd))

\* setDate(hd, day): hd.dd = day; fix(hd)
setDate(hd, day) == fix([hd EXCEPT !.dd = day])

\* new HDate(day, month, year): dd = mm = 1, setMonth then setDate
HDateFromHebrew(day, month, year) ==
    setDate(fix([yy |-> year, mm |-> month, dd |-> 1]), day)

\* new HDate(date) for a JavaScript Date: the Hebrew date of its local day
HDateFromGreg(date) == abs2hebrew(greg2abs(date))

\* hd.greg(): the Gregorian date, at local midnight
greg(hd) == abs2greg(hebrew2abs(hd.yy, hd.mm, hd.dd))

\* hd.next(): a NEW HDate one day later; the receiver is not changed
next(hd) == abs2hebrew(hebrew2abs(hd.yy, hd.mm, hd.dd) + 1)

getMonthName(month, year) ==
    IF month = ADAR_I /\ ~isLeapYear(year) THEN "Adar"
    ELSE <<"Nisan", "Iyyar", "Sivan", "Tamuz", "Av", "Elul", "Tishrei",
           "Cheshvan", "Kislev", "Tevet", "Sh'vat", "Adar I", "Adar II">>[month]

\* hd.render('en'): day, month name and year of the date
render(hd) == <<hd.dd, getMonthName(hd.mm, hd.yy), hd.yy>>

\* absence of a value (null / undefined)
null == [null |-> TRUE]

\* variant: the day is not advanced to Rosh Chodesh
yahrzeitRoshChodeshNoAdvance(hyear, hDeath) ==
    [hDeath EXCEPT !.yy = hyear]

\* getYahrzeit, second part: advance the day to Rosh Chodesh if needed, in hyear
yahrzeitRoshChodesh(hyear, hDeath) ==
    IF hDeath.mm = CHESHVAN /\ hDeath.dd = 30 /\ ~longCheshvan(hyear)
    THEN [yy |-> hyear, mm |-> KISLEV, dd |-> 1]
    ELSE IF hDeath.mm = KISLEV /\ hDeath.dd = 30 /\ shortKislev(hyear)
    THEN [yy |-> hyear, mm |-> TEVET, dd |-> 1]
    ELSE [hDeath EXCEPT !.yy = hyear]

\* HebrewCalendar.getYahrzeit(hyear, date of death as HDate)
getYahrzeit(hyear, hDeath) ==
    IF hyear <= hDeath.yy THEN null
    ELSE yahrzeitRoshChodesh(hyear,
           IF hDeath.mm = CHESHVAN /\ hDeath.dd = 30 /\ ~longCheshvan(hDeath.yy + 1)
           THEN abs2hebrew(hebrew2abs(hyear, KISLEV, 1) - 1)
           ELSE IF hDeath.mm = KISLEV /\ hDeath.dd = 30 /\ shortKislev(hDeath.yy + 1)
           THEN abs2hebrew(hebrew2abs(hyear, TEVET, 1) - 1)
           ELSE IF hDeath.mm = ADAR_II
           THEN [hDeath EXCEPT !.mm = monthsInYear(hyear)]
           ELSE IF hDeath.mm = ADAR_I /\ hDeath.dd = 30 /\ ~isLeapYear(hyear)
           THEN [hDeath EXCEPT !.dd = 30, !.mm = SHVAT]
           ELSE hDeath)

\* ------------------------------------------------------------------------
\* JavaScript Date comparison (by timestamp)
\* ------------------------------------------------------------------------
DateLE(a, b) ==
    \/ greg2abs(a) < greg2abs(b)
    \/ (greg2abs(a) = greg2abs(b) /\ a.ms <= b.ms)

DateLT(a, b) == ~DateLE(b, a)

\* ------------------------------------------------------------------------
\* event-calculations.ts
\* ------------------------------------------------------------------------
\* const hebrewBirthDate = new HDate(birthDate);
\* if (afterSunset) hebrewBirthDate.next();
\* The value of next() is dropped and next() leaves its receiver as it was,
\* so the date that the rest of the function uses is the unshifted one.
applySunsetBoundary(hebrewDate, afterSunset) ==
    IF afterSunset
    THEN LET dropped == next(hebrewDate) IN hebrewDate
    ELSE hebrewDate

\* variant: the month and day copied into the target year without fix
birthdayCandidateUnfixed(hebrewBirthDate, targetYear) ==
    [yy |-> targetYear, mm |-> hebrewBirthDate.mm, dd |-> hebrewBirthDate.dd]

\* the candidate of one loop iteration of calculateUpcomingBirthday
birthdayCandidate(hebrewBirthDate, targetYear) ==
    HDateFromHebrew(hebrewBirthDate.dd, hebrewBirthDate.mm, targetYear)

\* the candidate of one loop iteration of calculateUpcomingYahrzeit
yahrzeitCandidate(hebrewDeathDate, targetYear) ==
    getYahrzeit(targetYear, hebrewDeathDate)

\* variant: the upper end of the window not tested
inWindowNoEnd(gregorianDate, today, endDate) ==
    DateLE(today, gregorianDate)

\* variant: || in place of &&
inWindowEither(gregorianDate, today, endDate) ==
    DateLE(today, gregorianDate) \/ DateLE(gregorianDate, endDate)

\* if (gregorianDate >= today && gregorianDate <= endDate)
inWindow(gregorianDate, today, endDate) ==
    DateLE(today, gregorianDate) /\ DateLE(gregorianDate, endDate)

\* the object returned from inside the loop
UpcomingEvent(gregorianDate, occurrence, targetYear, hebrewOriginal) ==
    [gregorianDate |-> gregorianDate,
     hebrewDate |-> render(occurrence),
     years |-> targetYear - hebrewOriginal.yy]

RECURSIVE birthdayLoop(_, _, _, _, _)

\* the loop body from `const gregorianDate = nextOccurrence.greg()` on
birthdayTest(yearOffset, targetYear, nextOccurrence, gregorianDate, hebrewBirthDate, currentHebrewYear, today, endDate) ==
    IF inWindow(gregorianDate, today, endDate)
    THEN UpcomingEvent(gregorianDate, nextOccurrence, targetYear, hebrewBirthDate)
    ELSE birthdayLoop(yearOffset + 1, hebrewBirthDate,
                      currentHebrewYear, today, endDate)

\* the loop body once targetYear is set
birthdayBody(yearOffset, targetYear, hebrewBirthDate, currentHebrewYear, today, endDate) ==
    birthdayTest(yearOffset, targetYear,
                 birthdayCandidate(hebrewBirthDate, targetYear),
                 greg(birthdayCandidate(hebrewBirthDate, targetYear)),
                 hebrewBirthDate, currentHebrewYear, today, endDate)

\* variant: the loop tries the following Hebrew year before the current one
birthdayLoopNextYearFirst(yearOffset, hebrewBirthDate, currentHebrewYear, today, endDate) ==
    IF yearOffset > 1 THEN null
    ELSE birthdayBody(yearOffset, currentHebrewYear + (1 - yearOffset),
                      hebrewBirthDate, currentHebrewYear, today, endDate)

birthdayLoop(yearOffset, hebrewBirthDate, currentHebrewYear, today, endDate) ==
    IF yearOffset > 1 THEN null
    ELSE birthdayBody(yearOffset, currentHebrewYear + yearOffset,
                      hebrewBirthDate, currentHebrewYear, today, endDate)

calculateUpcomingBirthday(birthDate, afterSunset, today, endDate) ==
    birthdayLoop(0,
                 applySunsetBoundary(HDateFromGreg(birthDate), afterSunset),
                 HDateFromGreg(today).yy, today, endDate)

RECURSIVE yahrzeitLoop(_, _, _, _, _)

\* the loop body inside `if (yahrzeit)`, from yahrzeit.greg() on
yahrzeitTest(yearOffset, targetYear, yahrzeit, gregorianDate, hebrewDeathDate, currentHebrewYear, today, endDate) ==
    IF inWindow(gregorianDate, today, endDate)
    THEN UpcomingEvent(gregorianDate, yahrzeit, targetYear, hebrewDeathDate)
    ELSE yahrzeitLoop(yearOffset + 1, hebrewDeathDate,
                      currentHebrewYear, today, endDate)

\* the loop body once getYahrzeit has answered
yahrzeitBody(yearOffset, targetYear, yahrzeit, hebrewDeathDate, currentHebrewYear, today, endDate) ==
    IF yahrzeit # null
    THEN yahrzeitTest(yearOffset, targetYear, yahrzeit, greg(yahrzeit),
                      hebrewDeathDate, currentHebrewYear, today, endDate)
    ELSE yahrzeitLoop(yearOffset + 1, hebrewDeathDate,
                      currentHebrewYear, today, endDate)

yahrzeitLoop(yearOffset, hebrewDeathDate, currentHebrewYear, today, endDate) ==
    IF yearOffset > 1 THEN null
    ELSE yahrzeitBody(yearOffset, currentHebrewYear + yearOffset,
                      yahrzeitCandidate(hebrewDeathDate,
                                        currentHebrewYear + yearOffset),
                      hebrewDeathDate, currentHebrewYear, today, endDate)

calculateUpcomingYahrzeit(deathDate, afterSunset, today, endDate) ==
    yahrzeitLoop(0,
                 applySunsetBoundary(HDateFromGreg(deathDate), afterSunset),
                 HDateFromGreg(today).yy, today, endDate)

calculateUpcomingCustomEvent(eventDate, afterSunset, today, endDate) ==
    calculateUpcomingBirthday(eventDate, afterSunset, today, endDate)

\* ------------------------------------------------------------------------
\* period-utils.ts
\* ------------------------------------------------------------------------
\* the last millisecond of a day (date-fns endOfMonth: 23:59:59.999)
MsEndOfDay == 86399999

daysInGregMonth(year, month) ==
    toFixed(IF month = 12 THEN year + 1 ELSE year,
            IF month = 12 THEN 1 ELSE month + 1, 1) - toFixed(year, month, 1)

\* date-fns addDays: the calendar day moves, the time of day stays
addDays(date, amount) ==
    [abs2greg(greg2abs(date) + amount) EXCEPT !.ms = date.ms]

\* date-fns addWeeks
addWeeks(date, amount) == addDays(date, 7 * amount)

\* variant: the day of the month is kept and runs over into the month after
\* (31 Jan + 1 month = 2 Mar)
addMonthsToOverflow(date, year, month) ==
    [abs2greg(toFixed(year, month, 1) + date.day - 1) EXCEPT !.ms = date.ms]

\* addMonths once the target year and month are known: the day of the month
\* stays unless the target month is shorter
addMonthsTo(date, year, month) ==
    [year |-> year, month |-> month,
     day |-> IF date.day > daysInGregMonth(year, month)
             THEN daysInGregMonth(year, month) ELSE date.day,
     ms |-> date.ms]

\* date-fns addMonths
addMonths(date, amount) ==
    addMonthsTo(date, date.year + ((date.month - 1 + amount) \div 12),
                1 + ((date.month - 1 + amount) % 12))

\* date-fns startOfMonth
startOfMonth(date) == [date EXCEPT !.day = 1, !.ms = 0]

\* date-fns endOfMonth
endOfMonth(date) ==
    [date EXCEPT !.day = daysInGregMonth(date.year, date.month), !.ms = MsEndOfDay]

\* day of the week of a Date, 0 = Sunday ... 6 = Saturday (Date.getDay)
getDay(date) == greg2abs(date) % 7

\* interface DateRange { start; end } (the optional fields are never set)
DateRange(start, end) == [start |-> start, end |-> end]

\* getWeekRange(date): the Sunday on or before the date, at the start of the
\* day, through the Saturday six days later, to the end of that day
getWeekRange(date) ==
    DateRange([addDays(date, 0 - getDay(date)) EXCEPT !.ms = 0],
              [addDays(date, 6 - getDay(date)) EXCEPT !.ms = MsEndOfDay])

\* getHebrewMonthRange once the Hebrew date of the argument is known
hebrewMonthRangeOf(hd) ==
    DateRange(greg([hd EXCEPT !.dd = 1]),
              [greg([hd EXCEPT !.dd = daysInMonth(hd.mm, hd.yy)])
                 EXCEPT !.ms = MsEndOfDay])

\* getHebrewMonthRange(date): the first day through the last day of the
\* Hebrew month that contains the date
getHebrewMonthRange(date) == hebrewMonthRangeOf(HDateFromGreg(date))

\* getNextHebrewMonth once the Hebrew date of the argument is known
nextHebrewMonthOf(hd) ==
    abs2greg(hebrew2abs(hd.yy, hd.mm, daysInMonth(hd.mm, hd.yy)) + 1)

\* getNextHebrewMonth(date): a date in the Hebrew month that follows the
\* month of the date (its first day)
getNextHebrewMonth(date) == nextHebrewMonthOf(HDateFromGreg(date))

\* the switch has no case for 'custom' and nothing follows it: the function
\* ends without a return statement and its value is undefined
undefined == null

\* variant: this_week resolved as the week after
getPeriodDateRangeWeekAhead(period, today) ==
    IF period \in {"this_week", "next_week"} THEN getWeekRange(addWeeks(today, 1))
    ELSE IF period = "this_month"
    THEN DateRange(startOfMonth(today), endOfMonth(today))
    ELSE IF period = "next_month"
    THEN DateRange(startOfMonth(addMonths(today, 1)), endOfMonth(addMonths(today, 1)))
    ELSE IF period = "this_hebrew_month" THEN getHebrewMonthRange(today)
    ELSE IF period = "next_hebrew_month"
    THEN getHebrewMonthRange(getNextHebrewMonth(today))
    ELSE undefined

\* variant: next_hebrew_month resolved as the month of today
getPeriodDateRangeSameHebrewMonth(period, today) ==
    IF period = "this_week" THEN getWeekRange(today)
    ELSE IF period = "next_week" THEN getWeekRange(addWeeks(today, 1))
    ELSE IF period = "this_month"
    THEN DateRange(startOfMonth(today), endOfMonth(today))
    ELSE IF period = "next_month"
    THEN DateRange(startOfMonth(addMonths(today, 1)), endOfMonth(addMonths(today, 1)))
    ELSE IF period \in {"this_hebrew_month", "next_hebrew_month"}
    THEN getHebrewMonthRange(today)
    ELSE undefined

getPeriodDateRange(period, today) ==
    IF period = "this_week" THEN getWeekRange(today)
    ELSE IF period = "next_week" THEN getWeekRange(addWeeks(today, 1))
    ELSE IF period = "this_month"
    THEN DateRange(startOfMonth(today), endOfMonth(today))
    ELSE IF period = "next_month"
    THEN DateRange(startOfMonth(addMonths(today, 1)), endOfMonth(addMonths(today, 1)))
    ELSE IF period = "this_hebrew_month" THEN getHebrewMonthRange(today)
    ELSE IF period = "next_hebrew_month"
    THEN getHebrewMonthRange(getNextHebrewMonth(today))
    ELSE undefined

\* ------------------------------------------------------------------------
\* refresh-upcoming-events: rows and statements on the upcoming_event table
\* ------------------------------------------------------------------------
\* SQL NULL in an id column (ids count from 1)
NoId == 0

\* a TEXT column that is NULL or empty (both are falsy); a text is a tuple of
\* its parts
NoName == <<>>

\* the elements of a sequence
Range(seq) == {seq[i] : i \in DOMAIN seq}

\* the orders in which a SELECT without ORDER BY can return the rows of a table
RowOrders(table) ==
    {seq \in [1 .. Cardinality(table) -> table] : Range(seq) = table}

\* the object pushed at 3a
birthdayRow(person, birthday) ==
    [person_id |-> person.id,
     related_person_id |-> NoId,
     custom_event_id |-> NoId,
     event_type |-> "birthday",
     event_name |-> <<person.first_name, "'s Birthday">>,
     event_gregorian_date |-> birthday.gregorianDate,
     event_hebrew_date |-> birthday.hebrewDate,
     original_date |-> person.gregorian_birthday,
     years |-> birthday.years]

\* the object pushed at 3b
yahrzeitRow(person, yahrzeit) ==
    [person_id |-> person.id,
     related_person_id |-> NoId,
     custom_event_id |-> NoId,
     event_type |-> "yahrzeit",
     event_name |-> <<person.first_name, "'s Yahrzeit">>,
     event_gregorian_date |-> yahrzeit.gregorianDate,
     event_hebrew_date |-> yahrzeit.hebrewDate,
     original_date |-> person.gregorian_date_of_passing,
     years |-> yahrzeit.years]

\* the object pushed at 4
customRow(event, upcoming) ==
    [person_id |-> event.person_id,
     related_person_id |-> event.related_person_id,
     custom_event_id |-> event.id,
     event_type |-> event.event_type,
     event_name |-> IF event.event_name # NoName THEN event.event_name
                    ELSE <<event.person.first_name, "'s ", event.event_type>>,
     event_gregorian_date |-> upcoming.gregorianDate,
     event_hebrew_date |-> upcoming.hebrewDate,
     original_date |-> event.gregorian_date,
     years |-> upcoming.years]

\* if (birthday) eventsToInsert.push(...)
pushBirthday(person, birthday) ==
    IF birthday # null THEN <<birthdayRow(person, birthday)>> ELSE <<>>

\* if (yahrzeit) eventsToInsert.push(...)
pushYahrzeit(person, yahrzeit) ==
    IF yahrzeit # null THEN <<yahrzeitRow(person, yahrzeit)>> ELSE <<>>

\* if (upcoming) eventsToInsert.push(...)
pushCustom(event, upcoming) ==
    IF upcoming # null THEN <<customRow(event, upcoming)>> ELSE <<>>

\* a Date that holds no date (getTime() is NaN): the value an unparseable
\* date text gives
InvalidDate == [invalid |-> TRUE]

\* new HDate(date) throws a TypeError for such a Date; neither the
\* calculateUpcoming* functions nor refreshUpcomingEvents has a try/catch
HDateThrows(date) == date = InvalidDate

\* the loop body throws for this person: at 3a, or at 3b
personThrows(person) ==
    \/ HDateThrows(person.gregorian_birthday)
    \/ HDateThrows(person.gregorian_date_of_passing)

\* the loop body throws for this custom event
customEventThrows(event) == HDateThrows(event.gregorian_date)

\* what the loop body pushed for a person before it threw
personEventsBeforeThrow(person, today, endDate) ==
    IF HDateThrows(person.gregorian_birthday) THEN <<>>
    ELSE pushBirthday(person,
                      calculateUpcomingBirthday(person.gregorian_birthday,
                                                person.birthday_after_sunset,
                                                today, endDate))

\* refreshUpcomingEvents returns no value, and no statement of it records or
\* logs a warning
reportedWarnings == <<>>

\* the body of the loop over people: 3a, then 3b for a person who has a
\* date of passing
personEvents(person, today, endDate) ==
    pushBirthday(person,
                 calculateUpcomingBirthday(person.gregorian_birthday,
                                           person.birthday_after_sunset,
                                           today, endDate))
      \o (IF person.gregorian_date_of_passing # null
          THEN pushYahrzeit(person,
                            calculateUpcomingYahrzeit(
                                person.gregorian_date_of_passing,
                                person.date_of_passing_after_sunset,
                                today, endDate))
          ELSE <<>>)

RECURSIVE peopleLoop(_, _, _, _)
\* for (const person of people), from the i-th person on
peopleLoop(people, i, today, endDate) ==
    IF i > Len(people) THEN <<>>
    ELSE IF personThrows(people[i])
    THEN personEventsBeforeThrow(people[i], today, endDate)
    ELSE personEvents(people[i], today, endDate)
           \o peopleLoop(people, i + 1, today, endDate)

RECURSIVE customEventsLoop(_, _, _, _)
\* for (const event of customEvents), from the i-th event on
customEventsLoop(customEvents, i, today, endDate) ==
    IF i > Len(customEvents) THEN <<>>
    ELSE IF customEventThrows(customEvents[i]) THEN <<>>
    ELSE pushCustom(customEvents[i],
                    calculateUpcomingCustomEvent(customEvents[i].gregorian_date,
                                                 customEvents[i].date_after_sunset,
                                                 today, endDate))
           \o customEventsLoop(customEvents, i + 1, today, endDate)

\* the columns of UNIQUE(person_id, event_type, event_gregorian_date) and of
\* onConflict
conflictKey(row) ==
    <<row.person_id, row.event_type, row.event_gregorian_date>>

\* variant: the delete of the past rows removes nothing
deleteBeforeNone(rows, i, today) == rows

RECURSIVE deleteBefore(_, _, _)
\* .delete().lt('event_gregorian_date', today), from the i-th row on: the
\* column is a DATE, so a row goes when its day is before the day of today
deleteBefore(rows, i, today) ==
    IF i > Len(rows) THEN <<>>
    ELSE (IF greg2abs(rows[i].event_gregorian_date) < greg2abs(today)
          THEN <<>> ELSE <<rows[i]>>)
           \o deleteBefore(rows, i + 1, today)

\* INSERT ... ON CONFLICT DO UPDATE of one row: the row with the same key
\* takes the values of the new row, a row with a new key is added
upsertRow(rows, row) ==
    IF \E k \in DOMAIN rows : conflictKey(rows[k]) = conflictKey(row)
    THEN [k \in DOMAIN rows |->
            IF conflictKey(rows[k]) = conflictKey(row) THEN row ELSE rows[k]]
    ELSE Append(rows, row)

RECURSIVE upsertRows(_, _, _)
upsertRows(rows, batch, i) ==
    IF i > Len(batch) THEN rows
    ELSE upsertRows(upsertRow(rows, batch[i]), batch, i + 1)

\* two rows of one batch have the same conflict key
hasDuplicateKeys(batch) ==
    \E i, j \in DOMAIN batch : i < j /\ conflictKey(batch[i]) = conflictKey(batch[j])

\* variant: a batch with two rows of one key is applied row by row, the
\* later row overwriting the earlier
upsertLastWins(rows, batch) == upsertRows(rows, batch, 1)

\* variant: the rows are added and no conflict is detected
upsertAppending(rows, batch) == rows \o batch

\* .upsert(eventsToInsert, { onConflict: ... }): one statement; it fails as a
\* whole, and leaves the table as it was, when the batch would change one row
\* twice.  The call does not throw and the code does not look at its error.
upsert(rows, batch) ==
    IF hasDuplicateKeys(batch) THEN rows ELSE upsertRows(rows, batch, 1)

RECURSIVE cascadeDelete(_, _, _, _)
\* ON DELETE CASCADE from person and from custom_event, from the i-th row on
cascadeDelete(rows, i, personIds, customEventIds) ==
    IF i > Len(rows) THEN <<>>
    ELSE (IF \/ rows[i].person_id \in personIds
             \/ rows[i].related_person_id \in personIds
             \/ rows[i].custom_event_id \in customEventIds
          THEN <<>> ELSE <<rows[i]>>)
           \o cascadeDelete(rows, i + 1, personIds, customEventIds)

\* ------------------------------------------------------------------------
\* relation table and its AFTER INSERT trigger
\* ------------------------------------------------------------------------
\* CHECK (relationship IN (...))
Relationships ==
    {"parent", "child", "spouse", "sibling", "grandparent", "grandchild",
     "aunt", "uncle", "niece", "nephew", "cousin"}

\* the ELSE branch of the CASE: no reverse
NoReverse == "none"

\* variant: the reverse of uncle is niece
reverse_relationshipUncleNiece(relationship) ==
    CASE relationship = "parent" -> "child"
      [] relationship = "child" -> "parent"
      [] relationship = "spouse" -> "spouse"
      [] relationship = "sibling" -> "sibling"
      [] relationship = "grandparent" -> "grandchild"
      [] relationship = "grandchild" -> "grandparent"
      [] relationship = "aunt" -> "niece"
      [] relationship = "uncle" -> "niece"
      [] relationship = "niece" -> "aunt"
      [] relationship = "nephew" -> "uncle"
      [] relationship = "cousin" -> "cousin"
      [] OTHER -> NoReverse

\* CASE NEW.relationship ... END CASE: the value of reverse_relationship
reverse_relationship(relationship) ==
    CASE relationship = "parent" -> "child"
      [] relationship = "child" -> "parent"
      [] relationship = "spouse" -> "spouse"
      [] relationship = "sibling" -> "sibling"
      [] relationship = "grandparent" -> "grandchild"
      [] relationship = "grandchild" -> "grandparent"
      [] relationship = "aunt" -> "niece"
      [] relationship = "uncle" -> "nephew"
      [] relationship = "niece" -> "aunt"
      [] relationship = "nephew" -> "uncle"
      [] relationship = "cousin" -> "cousin"
      [] OTHER -> NoReverse

\* a row of relation: the columns of unique_relation
RelationRow(from, to, relationship) ==
    [from_person |-> from, to_person |-> to, relationship |-> relationship]

\* the row the trigger builds from NEW: reverse_from_person = NEW.to_person,
\* reverse_to_person = NEW.from_person
reverseRow(new) ==
    RelationRow(new.to_person, new.from_person,
                reverse_relationship(new.relationship))

\* a row passes the CHECK constraints of the table
passesChecks(row) ==
    /\ row.relationship \in Relationships
    /\ row.from_person # row.to_person

RECURSIVE create_reverse_relation(_, _, _)
\* variant: the trigger runs its INSERT without looking for the reverse row
create_reverse_relationNoExistsCheck(table, new, inserts) ==
    IF reverse_relationship(new.relationship) = NoReverse
    THEN [table |-> table, inserts |-> inserts]
    ELSE IF reverseRow(new) \in table
    THEN [table |-> table, inserts |-> inserts + 1]
    ELSE create_reverse_relation(table \cup {reverseRow(new)}, reverseRow(new),
                                 inserts + 1)

\* the trigger function, run after the row new was inserted into table; its
\* own INSERT fires the trigger again for the row it adds.  inserts counts
\* the rows added by the trigger.
create_reverse_relation(table, new, inserts) ==
    IF reverse_relationship(new.relationship) = NoReverse
    THEN [table |-> table, inserts |-> inserts]
    ELSE IF reverseRow(new) \in table
    THEN [table |-> table, inserts |-> inserts]
    ELSE create_reverse_relation(table \cup {reverseRow(new)}, reverseRow(new),
                                 inserts + 1)

\* INSERT INTO relation (from_person, to_person, relationship) VALUES (...)
\* by a client: rejected as a whole when a constraint fails
insertRelation(table, row) ==
    IF passesChecks(row) /\ row \notin table
    THEN [ok |-> TRUE] @@ create_reverse_relation(table \cup {row}, row, 0)
    ELSE [ok |-> FALSE, table |-> table, inserts |-> 0]

\* ------------------------------------------------------------------------
\* GET /api/family-tree: buildTree
\* ------------------------------------------------------------------------
\* a name is the tuple of its words; parseFullName: null for fewer than two
\* words, else the last word is the last name
parseFullName(name) ==
    IF Len(name) < 2 THEN null
    ELSE [first |-> SubSeq(name, 1, Len(name) - 1), last |-> name[Len(name)]]

\* formatName(person) for a person that exists: `${first_name} ${last_name}`
nameOf(person) == person.first_name \o <<person.last_name>>

\* formatName(peopleById.get(id))
formatName(peopleById, id) ==
    IF id \in DOMAIN peopleById THEN nameOf(peopleById[id]) ELSE <<"Unknown">>

\* formatCouplePair(person, spouse)
formatCouplePair(person, spouse) ==
    IF /\ "male" \in {person.gender, spouse.gender}
       /\ "female" \in {person.gender, spouse.gender}
    THEN [husband |-> nameOf(IF person.gender = "male" THEN person ELSE spouse),
          wife |-> nameOf(IF person.gender = "female" THEN person ELSE spouse)]
    ELSE [husband |-> nameOf(person), wife |-> nameOf(spouse)]

RECURSIVE spousePairsOf(_, _, _, _)
\* spouseIds.map(...).filter(Boolean), from the i-th id on
spousePairsOf(spouseIds, i, person, peopleById) ==
    IF i > Len(spouseIds) THEN <<>>
    ELSE (IF spouseIds[i] \in DOMAIN peopleById
          THEN <<formatCouplePair(person, peopleById[spouseIds[i]])>> ELSE <<>>)
           \o spousePairsOf(spouseIds, i + 1, person, peopleById)

\* the maps the handler builds before it calls buildTree
TreeMaps(peopleById, spousesById, childrenById) ==
    [peopleById |-> peopleById, spousesById |-> spousesById,
     childrenById |-> childrenById]

\* map.get(id) || []
idsOf(map, id) == IF id \in DOMAIN map THEN map[id] ELSE <<>>

\* the node returned for a person that is in visited
cycleNode(personId, maps) ==
    [name |-> formatName(maps.peopleById, personId) \o <<"(cycle)">>]

\* the node returned for a person that is expanded; an empty list stands for
\* undefined
personNode(personId, maps, children) ==
    [name |-> nameOf(maps.peopleById[personId]),
     spousePairs |-> spousePairsOf(idsOf(maps.spousesById, personId), 1,
                                   maps.peopleById[personId], maps.peopleById),
     children |-> children]

RECURSIVE buildTree(_, _, _)
RECURSIVE buildChildren(_, _, _, _)

\* the result of buildTree for a child, joined with the results for the
\* children after it
joinChildren(first, rest) ==
    [nodes |-> (IF first.node = null THEN <<>> ELSE <<first.node>>) \o rest.nodes,
     visited |-> rest.visited]

\* the children after the i-th, built with visited as the i-th left it
restOfChildren(first, childIds, i, maps) ==
    joinChildren(first, buildChildren(childIds, i + 1, first.visited, maps))

\* childIds.map((id) => buildTree(id)).filter(Boolean), from the i-th id on;
\* visited is the one set of the request
buildChildren(childIds, i, visited, maps) ==
    IF i > Len(childIds) THEN [nodes |-> <<>>, visited |-> visited]
    ELSE restOfChildren(buildTree(childIds[i], visited, maps), childIds, i, maps)

\* variant: a person is marked as visited only while its subtree is built
expandedNodeOnPath(personId, maps, built) ==
    [node |-> personNode(personId, maps, built.nodes),
     visited |-> built.visited \ {personId}]

\* the node of an expanded person from the result of building its children
expandedNode(personId, maps, built) ==
    [node |-> personNode(personId, maps, built.nodes), visited |-> built.visited]

\* buildTree(personId) with the visited set before the call; gives the node
\* (or null) and the visited set after the call
buildTree(personId, visited, maps) ==
    IF personId = NoId THEN [node |-> null, visited |-> visited]
    ELSE IF personId \in visited
    THEN [node |-> cycleNode(personId, maps), visited |-> visited]
    ELSE IF personId \notin DOMAIN maps.peopleById
    THEN [node |-> null, visited |-> visited \cup {personId}]
    ELSE expandedNode(personId, maps,
                      buildChildren(idsOf(maps.childrenById, personId), 1,
                                    visited \cup {personId}, maps))

\* the ids a relationship type maps from_person to, as a set
relatedIds(relations, relationship, personId) ==
    {rel.to_person : rel \in {r \in relations : /\ r.relationship = relationship
                                                /\ r.from_person = personId}}

\* the childrenById (or spousesById) maps that the forEach over the relations
\* can build: the SELECT has no ORDER BY, so each list can come in any order
idMaps(relations, relationship, personIds) ==
    {map \in [personIds -> UNION {RowOrders(relatedIds(relations, relationship, id)) :
                                    id \in personIds}] :
        \A id \in personIds :
            map[id] \in RowOrders(relatedIds(relations, relationship, id))}

\* the rows rootPersonQuery can give: the person with the parsed name, or
\* any one person (limit(1)) when the name does not parse; null when none
rootPersons(persons, rootName) ==
    IF parseFullName(rootName) = null
    THEN (IF persons = {} THEN {null} ELSE persons)
    ELSE IF \E person \in persons :
                /\ person.first_name = parseFullName(rootName).first
                /\ person.last_name = parseFullName(rootName).last
    THEN {person \in persons :
                /\ person.first_name = parseFullName(rootName).first
                /\ person.last_name = parseFullName(rootName).last}
    ELSE {null}

\* rootPerson?.id
idOrUndefined(rootPerson) == IF rootPerson = null THEN NoId ELSE rootPerson.id

\* ------------------------------------------------------------------------
\* Bounds of the explored inputs
\* ------------------------------------------------------------------------
\* original dates: the days of OrigFirst .. OrigFirst + NumOrigDays whose
\* Hebrew day of month is one of OrigDaysOfMonth (26 Sep 2022 = 1 Tishrei 5783;
\* the span covers 5783, a complete common year, and 5784, a leap year)
NumOrigDays == 737
\* reference dates: TodayFirst + k * TodayStride, k = 0 .. NumToday
\* (10 Nov 2023 is in 5784; k = 4 is 3 Oct 2024 = 1 Tishrei 5785)
NumToday == 5
TodayStride == 82
\* Hebrew years of the converter's Hebrew-date inputs and of the leap check
NumConvYears == 5
NumLeapYears == 120

OrigFirst == [year |-> 2022, month |-> 9, day |-> 26, ms |-> 0]
OrigDaysOfMonth == {1, 29, 30}
TodayFirst == [year |-> 2023, month |-> 11, day |-> 10, ms |-> 0]
\* time of day of the reference date: midnight, or 02:00 (the cron schedule)
TodayMs == {0, 7200000}
\* window lengths in days, endDate = today + w (same time of day)
WindowDays == {0 - 1, 0, 92, 396}
ConvFirstYear == 5784
LeapFirstYear == 5700

\* reference dates of the period resolver: PeriodFirst .. PeriodFirst +
\* NumPeriodDays (1 Dec 2023 .. 21 Oct 2024: a Gregorian year change, a
\* 31 Jan in a leap year, Adar I and Adar II of 5784, the start of 5785)
NumPeriodDays == 325
PeriodFirst == [year |-> 2023, month |-> 12, day |-> 1, ms |-> 0]

PeriodTodayDates ==
    {[abs2greg(n) EXCEPT !.ms = t] :
        n \in greg2abs(PeriodFirst) .. greg2abs(PeriodFirst) + NumPeriodDays,
        t \in TodayMs}

\* type Period
Periods ==
    {"this_week", "next_week", "this_month", "next_month",
     "this_hebrew_month", "next_hebrew_month", "custom"}

\* start_date / end_date query parameters of a request: absent, or a date
CustomDates ==
    {null, [year |-> 2024, month |-> 1, day |-> 15, ms |-> 0],
           [year |-> 2024, month |-> 2, day |-> 15, ms |-> 0]}

\* refresh: the clock is read as RefreshFirst + k * RefreshStride days for
\* k = 0 .. MaxTicks
MaxTicks == 1
\* the refresh job runs at most MaxRuns times
MaxRuns == 2
RefreshStride == 10
\* const lookAheadMonths = 3
lookAheadMonths == 3

\* 10 Apr 2024 02:00 (2 Nisan 5784); with look-ahead the window ends 10 Jul
RefreshFirst == [year |-> 2024, month |-> 4, day |-> 10, ms |-> 7200000]
\* the value of new Date() at clock reading k
RefreshTime(k) == addDays(RefreshFirst, k * RefreshStride)

\* birthdays: 1 Apr 1990 = 6 Nisan 5750 (next on 14 Apr 2024) and
\* 1 May 1990 = 6 Iyyar 5750 (next on 14 May 2024)
BirthDates ==
    {[year |-> 1990, month |-> 4, day |-> 1, ms |-> 0],
     [year |-> 1990, month |-> 5, day |-> 1, ms |-> 0]}
\* dates of passing: none, or 17 Apr 2000 = 12 Nisan 5760 (next on 20 Apr 2024,
\* the day of the clock reading 1)
PassingDates ==
    {null, [year |-> 2000, month |-> 4, day |-> 17, ms |-> 0]}
\* custom event dates: 10 Jun 2010 = 28 Sivan 5770 (next on 4 Jul 2024)
CustomEventDates == {[year |-> 2010, month |-> 6, day |-> 10, ms |-> 0]}
CustomEventNames == {NoName, <<"Wedding Anniversary">>}

\* ids of the people, and the ids given to the custom events that are created
PersonIds == {1}
CustomEventIds == {1, 2}
\* birthday_after_sunset of the people (the flag does not reach the result)
SunsetFlags == {TRUE}

\* a row of person
PersonRow(id, birthday, afterSunsetFlag, passing) ==
    [id |-> id,
     first_name |-> <<"P", id>>,
     gregorian_birthday |-> birthday,
     birthday_after_sunset |-> afterSunsetFlag,
     gregorian_date_of_passing |-> passing,
     date_of_passing_after_sunset |-> FALSE]

\* a row of custom_event
CustomEventRow(id, personId, name, date) ==
    [id |-> id,
     person_id |-> personId,
     related_person_id |-> NoId,
     event_type |-> "anniversary",
     event_name |-> name,
     gregorian_date |-> date,
     date_after_sunset |-> FALSE]

\* the person tables the refresh can start from
PersonTables ==
    {{PersonRow(i, f[i][1], f[i][2], f[i][3]) : i \in PersonIds} :
        f \in [PersonIds -> BirthDates \X SunsetFlags \X PassingDates]}

\* one refresh over a batch of records: two people, each with a birthday of
\* BirthDates or one that does not parse, and up to two custom events (1 has no
\* display name, 2 has one), each of either person, with a date of
\* CustomEventDates or one that does not parse
BatchPersonIds == {1, 2}
BatchCustomEventIds == {1, 2}

BatchPersonTables ==
    {{PersonRow(i, f[i], TRUE, null) : i \in BatchPersonIds} :
        f \in [BatchPersonIds -> BirthDates \cup {InvalidDate}]}

BatchCustomEventRow(id, personId, date) ==
    CustomEventRow(id, personId,
                   IF id = 1 THEN NoName ELSE <<"Wedding Anniversary">>, date)

BatchCustomEventTables ==
    {table \in SUBSET {BatchCustomEventRow(id, personId, date) :
                          id \in BatchCustomEventIds, personId \in BatchPersonIds,
                          date \in CustomEventDates \cup {InvalidDate}} :
        \A e1, e2 \in table : e1.id = e2.id => e1 = e2}

\* relation: the clients run at most MaxRelationInserts INSERT and
\* MaxRelationDeletes DELETE statements
MaxRelationInserts == 3
MaxRelationDeletes == 1
\* ids of the people the relations are between
RelationPersonIds == {1, 2}
\* relationship values a client sends: the allowed ones and one that is not
RelationshipInputs == Relationships \cup {"friend"}

\* family tree: the people, and the root names a request can carry (none,
\* one word, the name of each person, a name nobody has)
FamilyPersonIds == {1, 2, 3}
FamilyPerson(id) ==
    [id |-> id, first_name |-> <<"P", id>>, last_name |-> "Kassel",
     gender |-> IF id = 2 THEN "female" ELSE "male"]
FamilyPersons == {FamilyPerson(id) : id \in FamilyPersonIds}
RootNames ==
    {<<>>, <<"Kassel">>, <<"Nobody", "Known">>}
      \cup {nameOf(person) : person \in FamilyPersons}

\* the relation tables a request can find: any set of child relations between
\* the people, with or without persons 1 and 2 as spouses, each with the
\* reverse row of the trigger
FamilyRelationTables ==
    {UNION {{RelationRow(pair[1], pair[2], "child"),
             RelationRow(pair[2], pair[1], "parent")} : pair \in childPairs}
       \cup spouseRows :
        childPairs \in SUBSET {pair \in FamilyPersonIds \X FamilyPersonIds :
                                 pair[1] # pair[2]},
        spouseRows \in {{}, {RelationRow(1, 2, "spouse"),
                             RelationRow(2, 1, "spouse")}}}

EventKinds == {"birthday", "yahrzeit", "custom"}

\* one more original date: 4 Dec 2021 = 30 Kislev 5782; Kislev has 30 days in
\* 5783 and 29 in 5784
OrigExtra == {[year |-> 2021, month |-> 12, day |-> 4, ms |-> 0]}

OrigDates ==
    {abs2greg(n) : n \in {k \in greg2abs(OrigFirst) .. greg2abs(OrigFirst) + NumOrigDays :
                            abs2hebrew(k).dd \in OrigDaysOfMonth}}
      \cup OrigExtra

TodayDates ==
    {[abs2greg(greg2abs(TodayFirst) + k * TodayStride) EXCEPT !.ms = t] :
        k \in 0 .. NumToday, t \in TodayMs}

EndDateOf(date, w) == [abs2greg(greg2abs(date) + w) EXCEPT !.ms = date.ms]

ConvGregDates ==
    {abs2greg(n) : n \in hebrew2abs(ConvFirstYear, TISHREI, 1) ..
                         hebrew2abs(ConvFirstYear + NumConvYears, TISHREI, 1) - 1}

ConvHebrewDates ==
    UNION {UNION {{[yy |-> y, mm |-> m, dd |-> d] : d \in 1 .. daysInMonth(m, y)} :
                    m \in 1 .. monthsInYear(y)} :
             y \in ConvFirstYear .. ConvFirstYear + NumConvYears - 1}

\* ------------------------------------------------------------------------
\* State
\* ------------------------------------------------------------------------
VARIABLES
    eventKind,       \* which calculateUpcoming* function is called
    originalDate,    \* birthDate / deathDate / eventDate argument
    afterSunset,     \* afterSunset argument
    today,           \* today argument
    endDate,         \* endDate argument
    hebrewOriginal,  \* hebrewBirthDate / hebrewDeathDate after lines 195-196
    result,          \* the returned UpcomingEvent, or null
    pc,              \* "call" before the function ran, "done" after
    convMode,        \* converter run: "greg" starts from a Date, "hebrew" from an HDate
    convIn,          \* the converter's input
    convMid,         \* the first conversion's output
    convOut,         \* the output of converting convMid back
    convPc,          \* number of conversions done in the converter run
    leapYear,        \* Hebrew year given to isLeapYear
    leapResult,      \* its answer, or null before the call
    period,          \* period argument of getPeriodDateRange
    periodToday,     \* today argument of getPeriodDateRange
    startDate,       \* start_date query parameter of the request, or null
    endDateParam,    \* end_date query parameter of the request, or null
    dateRange,       \* the value getPeriodDateRange returned
    periodPc,        \* "call" before getPeriodDateRange ran, "done" after
    clock,           \* the clock reading: new Date() is RefreshTime(clock)
    personTable,     \* rows of person
    customEventTable,    \* rows of custom_event
    nextCustomEventId,   \* id of the next custom event created
    upcomingEventTable,  \* rows of upcoming_event, in the order they were added
    refPc,           \* position of refreshUpcomingEvents: "idle", "cleared",
                     \* "people", "custom", "done", or "failed" after an
                     \* exception ended the run
    refToday,        \* today of the running refresh
    refEndDate,      \* endDate of the running refresh
    people,          \* people as fetched by the running refresh
    customEvents,    \* customEvents as fetched by the running refresh
    eventsToInsert,  \* eventsToInsert of the running refresh
    runs,            \* number of refresh runs started
    readResults,     \* what a reader got from upcoming_event while the running
                     \* refresh was between its statements: <<>> if none
                     \* read, else <<rows>> for the latest read
    cacheBefore,     \* history: upcoming_event as it was when the refresh started
    prevRun,         \* history: today, inputs and output of the run before, or null
    relationTable,   \* rows of relation
    relInserts,      \* number of INSERT statements clients ran on relation
    relDeletes,      \* number of DELETE statements clients ran on relation
    lastInsert,      \* history: the last INSERT of a client, its outcome, and
                     \* the number of rows the trigger added for it; or null
    treeRootName,    \* GET /api/family-tree: the root query parameter (words)
    treeChildren,    \* childrenById as the handler built it
    treeResponse,    \* the JSON body of the response, or null before it
    treePc,          \* "request" before the handler ran, "done" after
    viewMounted,     \* FamilyTree: whether the component is mounted
    viewRootName,    \* its rootName prop
    viewTree,        \* its tree state
    viewError,       \* its error state
    viewEffects      \* the runs of its effect, oldest first: rootName of the
                     \* run, its cancelled flag, the position of its loadTree
                     \* ("fetch", "json", "text", "done") and what it received

occVars == <<eventKind, originalDate, afterSunset, today, endDate,
             hebrewOriginal, result, pc>>
convVars == <<convMode, convIn, convMid, convOut, convPc>>
leapVars == <<leapYear, leapResult>>
periodVars == <<period, periodToday, startDate, endDateParam, dateRange, periodPc>>
tableVars == <<personTable, customEventTable, nextCustomEventId>>
runVars == <<refToday, refEndDate, people, customEvents, eventsToInsert>>
refreshVars == <<clock, tableVars, upcomingEventTable, refPc, runVars, runs,
                 readResults, cacheBefore, prevRun>>
relVars == <<relationTable, relInserts, relDeletes, lastInsert>>
treeVars == <<treeRootName, treeChildren, treeResponse, treePc>>
viewVars == <<viewMounted, viewRootName, viewTree, viewError, viewEffects>>
familyVars == <<relVars, treeVars, viewVars>>
vars == <<occVars, convVars, leapVars, periodVars, refreshVars, familyVars>>

OccIdle ==
    /\ eventKind = "birthday"
    /\ originalDate = OrigFirst
    /\ afterSunset = FALSE
    /\ today = TodayFirst
    /\ endDate = TodayFirst
    /\ hebrewOriginal = null
    /\ result = null
    /\ pc = "idle"

ConvIdle ==
    /\ convMode = "idle"
    /\ convIn = null
    /\ convMid = null
    /\ convOut = null
    /\ convPc = 0

LeapIdle ==
    /\ leapYear = LeapFirstYear
    /\ leapResult = null

PeriodIdle ==
    /\ period = "this_week"
    /\ periodToday = PeriodFirst
    /\ startDate = null
    /\ endDateParam = null
    /\ dateRange = null
    /\ periodPc = "idle"

RefreshIdle ==
    /\ clock = 0
    /\ personTable = {}
    /\ customEventTable = {}
    /\ nextCustomEventId = 1
    /\ upcomingEventTable = <<>>
    /\ refPc = "idle"
    /\ refToday = null
    /\ refEndDate = null
    /\ people = <<>>
    /\ customEvents = <<>>
    /\ eventsToInsert = <<>>
    /\ runs = 0
    /\ readResults = <<>>
    /\ cacheBefore = <<>>
    /\ prevRun = null

RelationIdle ==
    /\ relationTable = {}
    /\ relInserts = 0
    /\ relDeletes = 0
    /\ lastInsert = null

TreeIdle ==
    /\ treeRootName = <<>>
    /\ treeChildren = <<>>
    /\ treeResponse = null
    /\ treePc = "idle"

ViewIdle ==
    /\ viewMounted = FALSE
    /\ viewRootName = ""
    /\ viewTree = null
    /\ viewError = null
    /\ viewEffects = <<>>

FamilyIdle == RelationIdle /\ TreeIdle /\ ViewIdle

\* ------------------------------------------------------------------------
\* Recurring-occurrence resolver: one call of a calculateUpcoming* function
\* ------------------------------------------------------------------------
Init ==
    /\ eventKind \in EventKinds
    /\ originalDate \in OrigDates
    /\ afterSunset \in BOOLEAN
    /\ today \in TodayDates
    /\ \E w \in WindowDays : endDate = EndDateOf(today, w)
    /\ hebrewOriginal = null
    /\ result = null
    /\ pc = "call"
    /\ ConvIdle
    /\ LeapIdle
    /\ PeriodIdle
    /\ RefreshIdle
    /\ FamilyIdle

CalcBirthday ==
    /\ pc = "call"
    /\ eventKind = "birthday"
    /\ hebrewOriginal' = applySunsetBoundary(HDateFromGreg(originalDate), afterSunset)
    /\ result' = calculateUpcomingBirthday(originalDate, afterSunset, today, endDate)
    /\ pc' = "done"
    /\ UNCHANGED <<eventKind, originalDate, afterSunset, today, endDate>>
    /\ UNCHANGED <<convVars, leapVars, periodVars, refreshVars, familyVars>>

CalcYahrzeit ==
    /\ pc = "call"
    /\ eventKind = "yahrzeit"
    /\ hebrewOriginal' = applySunsetBoundary(HDateFromGreg(originalDate), afterSunset)
    /\ result' = calculateUpcomingYahrzeit(originalDate, afterSunset, today, endDate)
    /\ pc' = "done"
    /\ UNCHANGED <<eventKind, originalDate, afterSunset, today, endDate>>
    /\ UNCHANGED <<convVars, leapVars, periodVars, refreshVars, familyVars>>

CalcCustomEvent ==
    /\ pc = "call"
    /\ eventKind = "custom"
    /\ hebrewOriginal' = applySunsetBoundary(HDateFromGreg(originalDate), afterSunset)
    /\ result' = calculateUpcomingCustomEvent(originalDate, afterSunset, today, endDate)
    /\ pc' = "done"
    /\ UNCHANGED <<eventKind, originalDate, afterSunset, today, endDate>>
    /\ UNCHANGED <<convVars, leapVars, periodVars, refreshVars, familyVars>>

Next == CalcBirthday \/ CalcYahrzeit \/ CalcCustomEvent

Spec == Init /\ [][Next]_vars

\* ------------------------------------------------------------------------
\* Converter: Date -> HDate -> Date and HDate -> Date -> HDate
\* ------------------------------------------------------------------------
InitConv ==
    /\ \/ (convMode = "greg" /\ convIn \in ConvGregDates)
       \/ (convMode = "hebrew" /\ convIn \in ConvHebrewDates)
    /\ convMid = null
    /\ convOut = null
    /\ convPc = 0
    /\ OccIdle
    /\ LeapIdle
    /\ PeriodIdle
    /\ RefreshIdle
    /\ FamilyIdle

\* new HDate(date)
ToHebrew ==
    /\ \/ (convMode = "greg" /\ convPc = 0
             /\ convMid' = HDateFromGreg(convIn) /\ convOut' = convOut)
       \/ (convMode = "hebrew" /\ convPc = 1
             /\ convOut' = HDateFromGreg(convMid) /\ convMid' = convMid)
    /\ convPc' = convPc + 1
    /\ UNCHANGED <<convMode, convIn, occVars, leapVars, periodVars, refreshVars, familyVars>>

\* hd.greg()
ToGregorian ==
    /\ \/ (convMode = "hebrew" /\ convPc = 0
             /\ convMid' = greg(convIn) /\ convOut' = convOut)
       \/ (convMode = "greg" /\ convPc = 1
             /\ convOut' = greg(convMid) /\ convMid' = convMid)
    /\ convPc' = convPc + 1
    /\ UNCHANGED <<convMode, convIn, occVars, leapVars, periodVars, refreshVars, familyVars>>

NextConv == ToHebrew \/ ToGregorian

SpecConv == InitConv /\ [][NextConv]_vars

\* ------------------------------------------------------------------------
\* Leap-year rule
\* ------------------------------------------------------------------------
InitLeap ==
    /\ leapYear \in LeapFirstYear .. LeapFirstYear + NumLeapYears
    /\ leapResult = null
    /\ OccIdle
    /\ ConvIdle
    /\ PeriodIdle
    /\ RefreshIdle
    /\ FamilyIdle

IsLeapYear ==
    /\ leapResult = null
    /\ leapResult' = [leap |-> isLeapYear(leapYear),
                      months |-> monthsInYear(leapYear)]
    /\ UNCHANGED <<leapYear, occVars, convVars, periodVars, refreshVars, familyVars>>

NextLeap == IsLeapYear

SpecLeap == InitLeap /\ [][NextLeap]_vars

\* ------------------------------------------------------------------------
\* Period resolver: one call of getPeriodDateRange for a request
\* ------------------------------------------------------------------------
InitPeriod ==
    /\ period \in Periods
    /\ periodToday \in PeriodTodayDates
    /\ startDate \in (IF period = "custom" THEN CustomDates ELSE {null})
    /\ endDateParam \in (IF period = "custom" THEN CustomDates ELSE {null})
    /\ dateRange = null
    /\ periodPc = "call"
    /\ OccIdle
    /\ ConvIdle
    /\ LeapIdle
    /\ RefreshIdle
    /\ FamilyIdle

\* getPeriodDateRange(period, today); the function has no parameter for the
\* start_date and end_date of the request
GetPeriodDateRange ==
    /\ periodPc = "call"
    /\ dateRange' = getPeriodDateRange(period, periodToday)
    /\ periodPc' = "done"
    /\ UNCHANGED <<period, periodToday, startDate, endDateParam>>
    /\ UNCHANGED <<occVars, convVars, leapVars, refreshVars, familyVars>>

NextPeriod == GetPeriodDateRange

SpecPeriod == InitPeriod /\ [][NextPeriod]_vars

\* ------------------------------------------------------------------------
\* Refresh job, the tables it reads, and a reader of upcoming_event
\* ------------------------------------------------------------------------
InitRefresh ==
    /\ clock = 0
    /\ personTable \in PersonTables
    /\ customEventTable = {}
    /\ nextCustomEventId = 1
    /\ upcomingEventTable = <<>>
    /\ refPc = "idle"
    /\ refToday = null
    /\ refEndDate = null
    /\ people = <<>>
    /\ customEvents = <<>>
    /\ eventsToInsert = <<>>
    /\ runs = 0
    /\ readResults = <<>>
    /\ cacheBefore = <<>>
    /\ prevRun = null
    /\ OccIdle
    /\ ConvIdle
    /\ LeapIdle
    /\ PeriodIdle
    /\ FamilyIdle

\* no refresh is running (the source tables are edited between runs);
\* "failed": the last run ended with an exception
RefreshNotRunning == refPc \in {"idle", "done", "failed"}

\* time passes
Tick ==
    /\ clock < MaxTicks
    /\ clock' = clock + 1
    /\ UNCHANGED <<tableVars, upcomingEventTable, refPc, runVars, runs, readResults,
                   cacheBefore, prevRun>>
    /\ UNCHANGED <<occVars, convVars, leapVars, periodVars, familyVars>>

\* a person's birthday is edited
UpdatePerson ==
    /\ RefreshNotRunning
    /\ \E person \in personTable :
         \E birthday \in BirthDates \ {person.gregorian_birthday} :
            personTable' = (personTable \ {person})
                             \cup {[person EXCEPT !.gregorian_birthday = birthday]}
    /\ UNCHANGED <<clock, customEventTable, nextCustomEventId, upcomingEventTable,
                   refPc, runVars, runs, readResults, cacheBefore, prevRun>>
    /\ UNCHANGED <<occVars, convVars, leapVars, periodVars, familyVars>>

\* a person is deleted; custom_event.person_id, upcoming_event.person_id and
\* upcoming_event.custom_event_id are ON DELETE CASCADE
DeletePerson ==
    /\ RefreshNotRunning
    /\ \E person \in personTable :
         /\ personTable' = personTable \ {person}
         /\ customEventTable' =
                {event \in customEventTable : event.person_id # person.id}
         /\ upcomingEventTable' =
                cascadeDelete(upcomingEventTable, 1, {person.id},
                              {event.id : event \in
                                 {e \in customEventTable : e.person_id = person.id}})
    /\ UNCHANGED <<clock, nextCustomEventId, refPc, runVars, runs, readResults,
                   cacheBefore, prevRun>>
    /\ UNCHANGED <<occVars, convVars, leapVars, periodVars, familyVars>>

\* a custom event is created for a person
AddCustomEvent ==
    /\ RefreshNotRunning
    /\ nextCustomEventId \in CustomEventIds
    /\ \E person \in personTable, name \in CustomEventNames, date \in CustomEventDates :
         customEventTable' = customEventTable
             \cup {CustomEventRow(nextCustomEventId, person.id, name, date)}
    /\ nextCustomEventId' = nextCustomEventId + 1
    /\ UNCHANGED <<clock, personTable, upcomingEventTable, refPc, runVars,
                   runs, readResults, cacheBefore, prevRun>>
    /\ UNCHANGED <<occVars, convVars, leapVars, periodVars, familyVars>>

\* a custom event is deleted; upcoming_event.custom_event_id is ON DELETE CASCADE
DeleteCustomEvent ==
    /\ RefreshNotRunning
    /\ \E event \in customEventTable :
         /\ customEventTable' = customEventTable \ {event}
         /\ upcomingEventTable' =
                cascadeDelete(upcomingEventTable, 1, {}, {event.id})
    /\ UNCHANGED <<clock, personTable, nextCustomEventId, refPc, runVars,
                   runs, readResults, cacheBefore, prevRun>>
    /\ UNCHANGED <<occVars, convVars, leapVars, periodVars, familyVars>>

\* refreshUpcomingEvents up to the end of statement 1: today, endDate, and
\* the delete of the past rows
ClearPastEvents ==
    /\ RefreshNotRunning
    /\ runs < MaxRuns
    /\ runs' = runs + 1
    /\ refToday' = RefreshTime(clock)
    /\ refEndDate' = addMonths(RefreshTime(clock), lookAheadMonths)
    /\ upcomingEventTable' = deleteBefore(upcomingEventTable, 1, RefreshTime(clock))
    /\ people' = <<>>
    /\ customEvents' = <<>>
    /\ eventsToInsert' = <<>>
    /\ readResults' = <<>>
    /\ cacheBefore' = upcomingEventTable
    /\ prevRun' = IF refPc = "done"
                  THEN [today |-> refToday, people |-> Range(people),
                        customEvents |-> Range(customEvents),
                        output |-> Range(eventsToInsert)]
                  ELSE null
    /\ refPc' = "cleared"
    /\ UNCHANGED <<clock, tableVars>>
    /\ UNCHANGED <<occVars, convVars, leapVars, periodVars, familyVars>>

\* statement 2 and the loop over people (3a, 3b)
FetchPeople ==
    /\ refPc = "cleared"
    /\ \E fetched \in RowOrders(personTable) :
         /\ people' = fetched
         /\ eventsToInsert' = peopleLoop(fetched, 1, refToday, refEndDate)
         /\ refPc' = IF \E i \in DOMAIN fetched : personThrows(fetched[i])
                     THEN "failed" ELSE "people"
    /\ UNCHANGED <<clock, tableVars, upcomingEventTable, refToday, refEndDate,
                   customEvents, runs, readResults, cacheBefore, prevRun>>
    /\ UNCHANGED <<occVars, convVars, leapVars, periodVars, familyVars>>

\* select('*, person:person_id(first_name)'): each event with its person
withPerson(event, persons) ==
    [id |-> event.id,
     person_id |-> event.person_id,
     related_person_id |-> event.related_person_id,
     event_type |-> event.event_type,
     event_name |-> event.event_name,
     gregorian_date |-> event.gregorian_date,
     date_after_sunset |-> event.date_after_sunset,
     person |-> [first_name |->
                   (CHOOSE p \in persons : p.id = event.person_id).first_name]]

\* statement 4 and the loop over the custom events
FetchCustomEvents ==
    /\ refPc = "people"
    /\ \E fetched \in RowOrders({withPerson(event, personTable) :
                                   event \in customEventTable}) :
         /\ customEvents' = fetched
         /\ eventsToInsert' =
                eventsToInsert \o customEventsLoop(fetched, 1, refToday, refEndDate)
         /\ refPc' = IF \E i \in DOMAIN fetched : customEventThrows(fetched[i])
                     THEN "failed" ELSE "custom"
    /\ UNCHANGED <<clock, tableVars, upcomingEventTable, refToday, refEndDate,
                   people, runs, readResults, cacheBefore, prevRun>>
    /\ UNCHANGED <<occVars, convVars, leapVars, periodVars, familyVars>>

\* statement 5
UpsertEvents ==
    /\ refPc = "custom"
    /\ upcomingEventTable' = upsert(upcomingEventTable, eventsToInsert)
    /\ refPc' = "done"
    /\ UNCHANGED <<clock, tableVars, runVars, runs, readResults, cacheBefore, prevRun>>
    /\ UNCHANGED <<occVars, convVars, leapVars, periodVars, familyVars>>

\* another client reads upcoming_event (GET /api/events/all) while the
\* refresh is between two of its statements
ReadCache ==
    /\ refPc \in {"cleared", "people", "custom"}
    /\ readResults' = <<upcomingEventTable>>
    /\ UNCHANGED <<clock, tableVars, upcomingEventTable, refPc, runVars, runs,
                   cacheBefore, prevRun>>
    /\ UNCHANGED <<occVars, convVars, leapVars, periodVars, familyVars>>

NextRefresh ==
    \/ Tick
    \/ UpdatePerson
    \/ DeletePerson
    \/ AddCustomEvent
    \/ DeleteCustomEvent
    \/ ClearPastEvents
    \/ FetchPeople
    \/ FetchCustomEvents
    \/ UpsertEvents
    \/ ReadCache

SpecRefresh == InitRefresh /\ [][NextRefresh]_vars

\* ------------------------------------------------------------------------
\* Refresh job over a batch of records, some of which may hold a date that
\* does not parse
\* ------------------------------------------------------------------------
InitBatch ==
    /\ clock = 0
    /\ personTable \in BatchPersonTables
    /\ customEventTable \in BatchCustomEventTables
    /\ nextCustomEventId = 3
    /\ upcomingEventTable = <<>>
    /\ refPc = "idle"
    /\ refToday = null
    /\ refEndDate = null
    /\ people = <<>>
    /\ customEvents = <<>>
    /\ eventsToInsert = <<>>
    /\ runs = 0
    /\ readResults = <<>>
    /\ cacheBefore = <<>>
    /\ prevRun = null
    /\ OccIdle
    /\ ConvIdle
    /\ LeapIdle
    /\ PeriodIdle
    /\ FamilyIdle

NextBatch ==
    \/ ClearPastEvents
    \/ FetchPeople
    \/ FetchCustomEvents
    \/ UpsertEvents

SpecBatch == InitBatch /\ [][NextBatch]_vars

\* ------------------------------------------------------------------------
\* Clients of the relation table
\* ------------------------------------------------------------------------
InitRelation ==
    /\ relationTable = {}
    /\ relInserts = 0
    /\ relDeletes = 0
    /\ lastInsert = null
    /\ TreeIdle
    /\ ViewIdle
    /\ OccIdle
    /\ ConvIdle
    /\ LeapIdle
    /\ PeriodIdle
    /\ RefreshIdle

\* a client inserts one row; the trigger runs in the same statement
InsertRelation ==
    /\ relInserts < MaxRelationInserts
    /\ \E from \in RelationPersonIds, to \in RelationPersonIds,
          relationship \in RelationshipInputs :
         /\ relationTable' =
                insertRelation(relationTable,
                               RelationRow(from, to, relationship)).table
         /\ lastInsert' =
                [row |-> RelationRow(from, to, relationship),
                 ok |-> insertRelation(relationTable,
                                       RelationRow(from, to, relationship)).ok,
                 inserts |-> insertRelation(relationTable,
                                            RelationRow(from, to, relationship)).inserts,
                 rowExisted |-> RelationRow(from, to, relationship) \in relationTable,
                 reverseExisted |->
                     reverseRow(RelationRow(from, to, relationship)) \in relationTable]
    /\ relInserts' = relInserts + 1
    /\ UNCHANGED relDeletes
    /\ UNCHANGED <<occVars, convVars, leapVars, periodVars, refreshVars, treeVars,
                   viewVars>>

\* a client deletes one row (the table has no trigger on DELETE)
DeleteRelation ==
    /\ relDeletes < MaxRelationDeletes
    /\ \E row \in relationTable : relationTable' = relationTable \ {row}
    /\ relDeletes' = relDeletes + 1
    /\ UNCHANGED <<relInserts, lastInsert>>
    /\ UNCHANGED <<occVars, convVars, leapVars, periodVars, refreshVars, treeVars,
                   viewVars>>

NextRelation == InsertRelation \/ DeleteRelation

SpecRelation == InitRelation /\ [][NextRelation]_vars

\* ------------------------------------------------------------------------
\* GET /api/family-tree: one request
\* ------------------------------------------------------------------------
InitTree ==
    /\ relationTable \in FamilyRelationTables
    /\ relInserts = 0
    /\ relDeletes = 0
    /\ lastInsert = null
    /\ treeRootName \in RootNames
    /\ treeChildren = <<>>
    /\ treeResponse = null
    /\ treePc = "request"
    /\ ViewIdle
    /\ OccIdle
    /\ ConvIdle
    /\ LeapIdle
    /\ PeriodIdle
    /\ RefreshIdle

\* peopleById of the handler
PeopleById == [id \in FamilyPersonIds |-> FamilyPerson(id)]

\* the GET handler: the three queries, the maps, buildTree and the response
GetFamilyTree ==
    /\ treePc = "request"
    /\ \E rootPerson \in rootPersons(FamilyPersons, treeRootName),
          childrenById \in idMaps(relationTable, "child", FamilyPersonIds),
          spousesById \in idMaps(relationTable, "spouse", FamilyPersonIds) :
         /\ treeChildren' = childrenById
         /\ treeResponse' =
                [tree |-> buildTree(idOrUndefined(rootPerson), {},
                                    TreeMaps(PeopleById, spousesById,
                                             childrenById)).node]
    /\ treePc' = "done"
    /\ UNCHANGED <<treeRootName, relVars, viewVars>>
    /\ UNCHANGED <<occVars, convVars, leapVars, periodVars, refreshVars>>

NextTree == GetFamilyTree

SpecTree == InitTree /\ [][NextTree]_vars

\* ------------------------------------------------------------------------
\* FamilyTree component: its effect and the responses of its requests
\* ------------------------------------------------------------------------
\* values the rootName prop takes
ViewRootNames == {"a", "b"}

\* runs of the effect explored in one life of the component
MaxEffects == 3

\* a run of the effect right after loadTree() was called: cancelled is false
\* and the fetch is pending
ViewEffect(rootName) ==
    [rootName |-> rootName, cancelled |-> FALSE, pc |-> "fetch",
     received |-> "none"]

\* a variant of notCancelled without the flag
notCancelledAlways(effect) == TRUE

\* `!cancelled` as the closures of one run of the effect read it
notCancelled(effect) == ~effect.cancelled

\* the cleanup function of the latest run: cancelled = true
cleanup(effects) ==
    [i \in DOMAIN effects |->
        IF i = Len(effects) THEN [effects[i] EXCEPT !.cancelled = TRUE]
        ELSE effects[i]]

\* data.tree of the response to request i when the root was found
TreeData(i, rootName) == [request |-> i, root |-> rootName]

\* the message of the Error request i ended with
ErrorMessage(i) == [request |-> i]

\* `if (!cancelled) setTree(data.tree)`
setTreeIfLive(effect, data, tree) == IF notCancelled(effect) THEN data ELSE tree

\* `if (!cancelled) setError(...)`
setErrorIfLive(effect, message, error) ==
    IF notCancelled(effect) THEN message ELSE error

\* run i after its loadTree moved to pc having received what
effectAt(effects, i, pc_, what) ==
    [effects EXCEPT ![i] = [@ EXCEPT !.pc = pc_, !.received = what]]

InitView ==
    /\ ViewIdle
    /\ RelationIdle
    /\ TreeIdle
    /\ OccIdle
    /\ ConvIdle
    /\ LeapIdle
    /\ PeriodIdle
    /\ RefreshIdle

\* first render and first run of the effect: setError(null) and the fetch
Mount ==
    /\ ~viewMounted
    /\ viewEffects = <<>>
    /\ \E rootName \in ViewRootNames :
         /\ viewRootName' = rootName
         /\ viewEffects' = <<ViewEffect(rootName)>>
    /\ viewMounted' = TRUE
    /\ viewError' = null
    /\ UNCHANGED viewTree
    /\ UNCHANGED <<occVars, convVars, leapVars, periodVars, refreshVars, relVars,
                   treeVars>>

\* a render with another rootName: the cleanup of the run before, then the
\* effect again
ChangeRootName ==
    /\ viewMounted
    /\ Len(viewEffects) < MaxEffects
    /\ \E rootName \in ViewRootNames \ {viewRootName} :
         /\ viewRootName' = rootName
         /\ viewEffects' = Append(cleanup(viewEffects), ViewEffect(rootName))
    /\ viewError' = null
    /\ UNCHANGED <<viewMounted, viewTree>>
    /\ UNCHANGED <<occVars, convVars, leapVars, periodVars, refreshVars, relVars,
                   treeVars>>

\* the component is removed: the cleanup of the latest run
Unmount ==
    /\ viewMounted
    /\ viewMounted' = FALSE
    /\ viewEffects' = cleanup(viewEffects)
    /\ UNCHANGED <<viewRootName, viewTree, viewError>>
    /\ UNCHANGED <<occVars, convVars, leapVars, periodVars, refreshVars, relVars,
                   treeVars>>

\* the fetch of run i resolves with a response: response.ok decides which
\* body is read next
FetchResolves ==
    /\ \E i \in DOMAIN viewEffects, ok \in BOOLEAN :
         /\ viewEffects[i].pc = "fetch"
         /\ viewEffects' = effectAt(viewEffects, i,
                                    IF ok THEN "json" ELSE "text", "none")
    /\ UNCHANGED <<viewMounted, viewRootName, viewTree, viewError>>
    /\ UNCHANGED <<occVars, convVars, leapVars, periodVars, refreshVars, relVars,
                   treeVars>>

\* the fetch of run i rejects: the catch block
FetchRejects ==
    /\ \E i \in DOMAIN viewEffects :
         /\ viewEffects[i].pc = "fetch"
         /\ viewError' = setErrorIfLive(viewEffects[i], ErrorMessage(i), viewError)
         /\ viewEffects' = effectAt(viewEffects, i, "done", "error")
    /\ UNCHANGED <<viewMounted, viewRootName, viewTree>>
    /\ UNCHANGED <<occVars, convVars, leapVars, periodVars, refreshVars, relVars,
                   treeVars>>

\* response.json() of run i resolves: data.tree is the tree of the root, or
\* null when the handler found no root
JsonResolves ==
    /\ \E i \in DOMAIN viewEffects, found \in BOOLEAN :
         /\ viewEffects[i].pc = "json"
         /\ viewTree' = setTreeIfLive(viewEffects[i],
                                      IF found
                                      THEN TreeData(i, viewEffects[i].rootName)
                                      ELSE null,
                                      viewTree)
         /\ viewEffects' = effectAt(viewEffects, i, "done",
                                    IF found THEN "tree" ELSE "noTree")
    /\ UNCHANGED <<viewMounted, viewRootName, viewError>>
    /\ UNCHANGED <<occVars, convVars, leapVars, periodVars, refreshVars, relVars,
                   treeVars>>

\* response.json() of run i rejects: the catch block
JsonRejects ==
    /\ \E i \in DOMAIN viewEffects :
         /\ viewEffects[i].pc = "json"
         /\ viewError' = setErrorIfLive(viewEffects[i], ErrorMessage(i), viewError)
         /\ viewEffects' = effectAt(viewEffects, i, "done", "error")
    /\ UNCHANGED <<viewMounted, viewRootName, viewTree>>
    /\ UNCHANGED <<occVars, convVars, leapVars, periodVars, refreshVars, relVars,
                   treeVars>>

\* response.text() of run i settles: the Error is thrown and caught
TextSettles ==
    /\ \E i \in DOMAIN viewEffects :
         /\ viewEffects[i].pc = "text"
         /\ viewError' = setErrorIfLive(viewEffects[i], ErrorMessage(i), viewError)
         /\ viewEffects' = effectAt(viewEffects, i, "done", "error")
    /\ UNCHANGED <<viewMounted, viewRootName, viewTree>>
    /\ UNCHANGED <<occVars, convVars, leapVars, periodVars, refreshVars, relVars,
                   treeVars>>

NextView ==
    \/ Mount
    \/ ChangeRootName
    \/ Unmount
    \/ FetchResolves
    \/ FetchRejects
    \/ JsonResolves
    \/ JsonRejects
    \/ TextSettles

SpecView == InitView /\ [][NextView]_vars

\* ------------------------------------------------------------------------
\* Properties
\* ------------------------------------------------------------------------
\* the Hebrew year of the reference date (currentHebrewYear of the code)
RefHebrewYear == HDateFromGreg(today).yy

\* the candidate occurrence the called function builds for a year offset
Candidate(yearOffset) ==
    IF eventKind = "yahrzeit"
    THEN yahrzeitCandidate(hebrewOriginal, RefHebrewYear + yearOffset)
    ELSE birthdayCandidate(hebrewOriginal, RefHebrewYear + yearOffset)

\* the candidate exists and its Gregorian date lies in [today, endDate]
CandidateInWindow(yearOffset) ==
    /\ Candidate(yearOffset) # null
    /\ DateLE(today, greg(Candidate(yearOffset)))
    /\ DateLE(greg(Candidate(yearOffset)), endDate)

\* the original Hebrew date as the specification normalizes it: the Hebrew
\* date of the original Gregorian date, moved to the following Hebrew day
\* when the after-sunset flag is set
SpecOriginal ==
    IF afterSunset THEN next(HDateFromGreg(originalDate))
    ELSE HDateFromGreg(originalDate)

ValidHebrewDate(hd) ==
    /\ hd.mm \in 1 .. 13
    /\ (hd.mm = 13 => isLeapYear(hd.yy))
    /\ hd.dd >= 1
    /\ hd.dd <= daysInMonth(hd.mm, hd.yy)
    /\ daysInMonth(hd.mm, hd.yy) \in {29, 30}

\* C1: whenever a calculateUpcoming* function returns an occurrence, its
\* Gregorian date lies in the window: today <= gregorianDate <= endDate.
C1_ResultInWindow ==
    (pc = "done" /\ result # null) =>
        /\ DateLE(today, result.gregorianDate)
        /\ DateLE(result.gregorianDate, endDate)

C1_Witness ==
    /\ pc = "done"
    /\ result # null
    /\ DateLT(today, result.gregorianDate)
    /\ DateLT(result.gregorianDate, endDate)

\* C2: when at least one of the two candidates (year offsets 0 and 1) lies
\* in the window, the function returns the earliest in-window candidate, and
\* it returns the offset-1 candidate only when the offset-0 candidate is not
\* in the window; when none lies in the window it returns null.
C2_EarliestInWindow ==
    pc = "done" =>
        LET c0 == Candidate(0)
            c1 == Candidate(1)
            g0 == IF c0 = null THEN null ELSE greg(c0)
            g1 == IF c1 = null THEN null ELSE greg(c1)
            in0 == c0 # null /\ DateLE(today, g0) /\ DateLE(g0, endDate)
            in1 == c1 # null /\ DateLE(today, g1) /\ DateLE(g1, endDate)
            inWin == {k \in {0, 1} : IF k = 0 THEN in0 ELSE in1}
            gOf(k) == IF k = 0 THEN g0 ELSE g1
        IN  /\ (inWin = {}) <=> (result = null)
            /\ inWin # {} =>
                 /\ \E k \in inWin :
                      /\ result.gregorianDate = gOf(k)
                      /\ result.years = RefHebrewYear + k - hebrewOriginal.yy
                 /\ \A k \in inWin : DateLE(result.gregorianDate, gOf(k))
                 /\ (in1 /\ result.gregorianDate = g1) => ~in0

C2_Witness ==
    /\ pc = "done"
    /\ CandidateInWindow(0)
    /\ CandidateInWindow(1)
    /\ result # null
    /\ result.gregorianDate = greg(Candidate(0))

\* C3: when endDate < today the function returns null, as an ordinary value.
C3_EmptyWindowGivesNull ==
    (pc = "done" /\ DateLT(endDate, today)) => result = null

C3_Witness ==
    /\ pc = "done"
    /\ DateLT(endDate, today)
    /\ result = null

\* C4: the years field of a returned occurrence is the Hebrew year of the
\* occurrence minus the Hebrew year of the sunset-normalized original date.
C4_YearsFromNormalizedOriginal ==
    (pc = "done" /\ result # null) =>
        result.years = HDateFromGreg(result.gregorianDate).yy - SpecOriginal.yy

\* C5: the Hebrew date used for the recurrence is the Hebrew date of the
\* original Gregorian date when afterSunset is false, and the Hebrew day
\* following it when afterSunset is true.
C5_SunsetShiftsOriginal ==
    pc = "done" =>
        /\ (~afterSunset => hebrewOriginal = HDateFromGreg(originalDate))
        /\ (afterSunset => hebrewOriginal = next(HDateFromGreg(originalDate)))

\* C6: sunset normalization returns its input when afterSunset is false and
\* the Hebrew date exactly one day later when it is true: day + 1 inside a
\* month, day 1 of the following month at a month end, day 1 of the first
\* month of the next year on the last day of a year.
C6_NormalizerAdvancesOneDay ==
    pc = "done" =>
        LET h == HDateFromGreg(originalDate)
            r == applySunsetBoundary(h, afterSunset)
        IN  /\ r = hebrewOriginal
            /\ ~afterSunset => r = h
            /\ afterSunset =>
                 /\ hebrew2abs(r.yy, r.mm, r.dd) = hebrew2abs(h.yy, h.mm, h.dd) + 1
                 /\ (h.dd < daysInMonth(h.mm, h.yy)
                       => r = [h EXCEPT !.dd = h.dd + 1])
                 /\ (h.dd = daysInMonth(h.mm, h.yy) /\ h.mm # ELUL
                       => r = [h EXCEPT !.dd = 1,
                                        !.mm = IF h.mm = monthsInYear(h.yy)
                                               THEN 1 ELSE h.mm + 1])
                 /\ (h.dd = daysInMonth(h.mm, h.yy) /\ h.mm = ELUL
                       => r = [yy |-> h.yy + 1, mm |-> TISHREI, dd |-> 1])

\* C7: new HDate(date).greg() gives the Date back, and new HDate(hd.greg())
\* gives the Hebrew date back.
C7_RoundTrip ==
    convPc = 2 => convOut = convIn

C7_Witness ==
    /\ convPc = 2
    /\ convMode = "greg"
    /\ convMid.mm = ADAR_II
    /\ convOut = convIn

\* C8: a Hebrew year is leap, by (7 * Y + 1) mod 19 < 7, exactly when its
\* position in the 19-year cycle is 3, 6, 8, 11, 14, 17 or 19, and 7 of any
\* 19 consecutive years are leap.
C8_LeapCyclePositions ==
    leapResult # null =>
        LET position == IF leapYear % 19 = 0 THEN 19 ELSE leapYear % 19
        IN  /\ leapResult.leap <=> position \in {3, 6, 8, 11, 14, 17, 19}
            /\ leapResult.months = IF leapResult.leap THEN 13 ELSE 12
            /\ Cardinality({y \in leapYear .. leapYear + 18 : isLeapYear(y)}) = 7

C8_Witness ==
    /\ leapResult # null
    /\ leapResult.leap
    /\ leapYear % 19 = 0

\* C9: every Hebrew date the engine produces is valid: the Hebrew dates of
\* the original and reference dates, the normalized original date, each
\* candidate occurrence, and so the returned occurrence.
C9_ProducedDatesValid ==
    pc = "done" =>
        LET c0 == Candidate(0)
            c1 == Candidate(1)
            refYear == RefHebrewYear
            returned == HDateFromGreg(result.gregorianDate)
        IN  /\ ValidHebrewDate(HDateFromGreg(originalDate))
            /\ ValidHebrewDate(HDateFromGreg(today))
            /\ ValidHebrewDate(hebrewOriginal)
            /\ c0 # null => (ValidHebrewDate(c0) /\ c0.yy = refYear)
            /\ c1 # null => (ValidHebrewDate(c1) /\ c1.yy = refYear + 1)
            /\ result # null =>
                 /\ ValidHebrewDate(returned)
                 /\ returned \in {c0, c1}
                 /\ result.hebrewDate = render(returned)

C9_Witness ==
    /\ pc = "done"
    /\ eventKind = "birthday"
    /\ hebrewOriginal.mm = ADAR_II
    /\ ~isLeapYear(RefHebrewYear)
    /\ result # null
    /\ result.hebrewDate[2] = "Adar"

\* C10: for a yahrzeit whose normalized death date is in Adar II, the
\* candidate of a non-leap year is in Adar (month 12) of that year; it is
\* neither in month 13 nor missing.
C10_AdarIICollapses ==
    (pc = "done" /\ eventKind = "yahrzeit" /\ SpecOriginal.mm = ADAR_II) =>
        \A k \in {0, 1} :
            (~isLeapYear(RefHebrewYear + k) /\ RefHebrewYear + k > SpecOriginal.yy) =>
                /\ Candidate(k) # null
                /\ Candidate(k).yy = RefHebrewYear + k
                /\ Candidate(k).mm = ADAR_I
                /\ Candidate(k).dd = SpecOriginal.dd

\* C11: for a birthday or a custom event, the candidate of each candidate
\* year has the Hebrew month and day of the sunset-normalized original date,
\* except that Adar II becomes Adar in a non-leap candidate year; nothing
\* else is adjusted.
C11_SameMonthAndDay ==
    (pc = "done" /\ eventKind # "yahrzeit") =>
        \A k \in {0, 1} :
            LET y == RefHebrewYear + k
                c == Candidate(k)
            IN  /\ c.yy = y
                /\ c.dd = SpecOriginal.dd
                /\ c.mm = IF SpecOriginal.mm = ADAR_II /\ ~isLeapYear(y)
                          THEN ADAR_I ELSE SpecOriginal.mm

\* C12 as stated: for a yahrzeit whose death date is the 30th of a month
\* that has 29 days in the candidate year, the candidate is the 1st of the
\* following Hebrew month of the candidate year.
C12_ThirtiethShiftsToFirst ==
    (pc = "done" /\ eventKind = "yahrzeit" /\ hebrewOriginal.dd = 30) =>
        \A k \in {0, 1} :
            LET y == RefHebrewYear + k
                h == hebrewOriginal
            IN  (y > h.yy /\ daysInMonth(h.mm, y) = 29) =>
                    Candidate(k) = [yy |-> y,
                                    mm |-> IF h.mm = monthsInYear(y) THEN NISAN
                                           ELSE h.mm + 1,
                                    dd |-> 1]

\* C12 as amended: for a yahrzeit whose death date is the 30th of a month
\* that has 29 days in the candidate year: a death on 30 Cheshvan or 30
\* Kislev has its candidate on the 1st of the following month when the month
\* had 30 days in the year after the death, and on the 29th of the same month
\* when it had 29; a death on 30 Adar I has its candidate on 30 Sh'vat.
C12_ThirtiethByFirstAnniversary ==
    (pc = "done" /\ eventKind = "yahrzeit" /\ hebrewOriginal.dd = 30) =>
        \A k \in {0, 1} :
            LET y == RefHebrewYear + k
                h == hebrewOriginal
            IN  (y > h.yy /\ daysInMonth(h.mm, y) = 29) =>
                    Candidate(k) =
                        IF h.mm = ADAR_I
                        THEN [yy |-> y, mm |-> SHVAT, dd |-> 30]
                        ELSE IF daysInMonth(h.mm, h.yy + 1) = 30
                        THEN [yy |-> y, mm |-> h.mm + 1, dd |-> 1]
                        ELSE [yy |-> y, mm |-> h.mm, dd |-> 29]

C12_Witness ==
    /\ pc = "done"
    /\ eventKind = "yahrzeit"
    /\ hebrewOriginal.dd = 30
    /\ hebrewOriginal.mm = KISLEV
    /\ daysInMonth(KISLEV, hebrewOriginal.yy + 1) = 30
    /\ daysInMonth(KISLEV, RefHebrewYear) = 29
    /\ result # null
    /\ result.hebrewDate = <<1, "Tevet", RefHebrewYear>>

\* the InvalidPeriod failure of the period resolver
InvalidPeriod == [error |-> "InvalidPeriod"]

\* C13: for every reference date, the range of this_week starts on a Sunday
\* and ends on the Saturday six days later, and start <= today <= end; for a
\* Sunday the week starts that day and for a Saturday it ends that day.
C13_ThisWeekSundayToSaturday ==
    (periodPc = "done" /\ period = "this_week") =>
        /\ dateRange # undefined
        /\ getDay(dateRange.start) = 0
        /\ getDay(dateRange.end) = 6
        /\ greg2abs(dateRange.end) = greg2abs(dateRange.start) + 6
        /\ DateLE(dateRange.start, periodToday)
        /\ DateLE(periodToday, dateRange.end)
        /\ (getDay(periodToday) = 0 =>
                greg2abs(dateRange.start) = greg2abs(periodToday))
        /\ (getDay(periodToday) = 6 =>
                greg2abs(dateRange.end) = greg2abs(periodToday))

C13_Witness ==
    /\ periodPc = "done"
    /\ period = "this_week"
    /\ periodToday = [year |-> 2024, month |-> 10, day |-> 2, ms |-> 7200000]
    /\ dateRange.start = [year |-> 2024, month |-> 9, day |-> 29, ms |-> 0]
    /\ greg2abs(dateRange.end) = greg2abs(periodToday) + 3

\* C14: for each of the seven tokens and every reference date the resolver
\* yields a DateRange with start and end, or the InvalidPeriod failure; its
\* result is never undefined.
C14_TotalOverTokens ==
    periodPc = "done" =>
        /\ dateRange # undefined
        /\ \/ dateRange = InvalidPeriod
           \/ /\ DOMAIN dateRange = {"start", "end"}
              /\ dateRange.start # null
              /\ dateRange.end # null

\* C15: for the token custom the resolver fails with InvalidPeriod when the
\* supplied start or end is missing or start > end, and otherwise returns
\* the supplied [start, end] (start = end included).
C15_CustomRange ==
    (periodPc = "done" /\ period = "custom") =>
        IF startDate = null \/ endDateParam = null
        THEN dateRange = InvalidPeriod
        ELSE IF DateLT(endDateParam, startDate)
        THEN dateRange = InvalidPeriod
        ELSE dateRange = DateRange(startDate, endDateParam)

\* C16: this_hebrew_month gives the Gregorian dates of day 1 and of the last
\* day (29 or 30) of the Hebrew month of today, so start <= today <= end;
\* next_hebrew_month gives the first and last day of the Hebrew month after
\* it, also from Elul to Tishrei of the next year and from Adar I to Adar II.
C16_HebrewMonthRange ==
    (periodPc = "done" /\ period \in {"this_hebrew_month", "next_hebrew_month"}) =>
        LET h == HDateFromGreg(periodToday)
            s == HDateFromGreg(dateRange.start)
            e == HDateFromGreg(dateRange.end)
            lastOfThis == hebrew2abs(h.yy, h.mm, daysInMonth(h.mm, h.yy))
        IN  /\ s.dd = 1
            /\ e.yy = s.yy /\ e.mm = s.mm
            /\ e.dd = daysInMonth(s.mm, s.yy)
            /\ e.dd \in {29, 30}
            /\ HDateFromGreg(addDays(dateRange.end, 1)).dd = 1
            /\ period = "this_hebrew_month" =>
                 /\ s.yy = h.yy /\ s.mm = h.mm
                 /\ DateLE(dateRange.start, periodToday)
                 /\ DateLE(periodToday, dateRange.end)
            /\ period = "next_hebrew_month" =>
                 /\ greg2abs(dateRange.start) = lastOfThis + 1
                 /\ (h.mm = ELUL => (s.yy = h.yy + 1 /\ s.mm = TISHREI))
                 /\ (h.mm # ELUL => s.yy = h.yy)
                 /\ (h.mm = ADAR_I /\ isLeapYear(h.yy) => s.mm = ADAR_II)
                 /\ (h.mm = monthsInYear(h.yy) => s.mm = NISAN)
                 /\ (h.mm \notin {ELUL, monthsInYear(h.yy)} => s.mm = h.mm + 1)

C16_Witness ==
    /\ periodPc = "done"
    /\ period = "next_hebrew_month"
    /\ HDateFromGreg(periodToday).mm = ADAR_I
    /\ HDateFromGreg(dateRange.start) = [yy |-> 5784, mm |-> ADAR_II, dd |-> 1]
    /\ HDateFromGreg(dateRange.end) = [yy |-> 5784, mm |-> ADAR_II, dd |-> 29]

\* no two rows have the same (person_id, event_type, event_gregorian_date)
UniqueKeys(rows) ==
    \A i, j \in DOMAIN rows : conflictKey(rows[i]) = conflictKey(rows[j]) => i = j

\* the step in which a refresh completes: its last statement, the upsert
RefreshCompletes == refPc = "custom" /\ refPc' = "done"

\* the running refresh read the inputs that the run before it read
SameInputsAsRunBefore ==
    /\ prevRun # null
    /\ prevRun.today = refToday
    /\ prevRun.people = Range(people)
    /\ prevRun.customEvents = Range(customEvents)

\* C17: after any sequence of refresh runs, the records of the refresh (the
\* list it computed and the rows of the cache table) hold at most one record
\* per (subject person id, event type, computed Gregorian date), also when
\* two custom events of one type and person resolve to the same date.
C17_OneRecordPerKey ==
    /\ UniqueKeys(upcomingEventTable)
    /\ refPc = "done" => UniqueKeys(eventsToInsert)

\* C18: a refresh that runs after another one with the same people, custom
\* events, today and window computes the same set of records and leaves the
\* cache table as the first run left it.
C18_RefreshIdempotent ==
    [][(RefreshCompletes /\ SameInputsAsRunBefore) =>
          /\ Range(eventsToInsert) = prevRun.output
          /\ upcomingEventTable' = cacheBefore]_vars

C18_Witness ==
    /\ refPc = "done"
    /\ SameInputsAsRunBefore
    /\ Len(upcomingEventTable) = 3
    /\ Range(upcomingEventTable) = Range(eventsToInsert)
    /\ upcomingEventTable = cacheBefore

\* C19: a read of the cache table made while a refresh runs returns either
\* all rows as they were before the refresh or all rows as they are after it,
\* never the rows as they are between the delete and the upsert.
C19_ReadersSeeWholeRefresh ==
    [][RefreshCompletes =>
          \A i \in DOMAIN readResults :
              \/ readResults[i] = cacheBefore
              \/ readResults[i] = upcomingEventTable']_vars

\* C20: when a refresh has completed, the rows of the cache table are
\* exactly the records computed from the inputs of that refresh; no row
\* written by an earlier refresh for a source that was deleted or whose date
\* was changed is left.
C20_CacheFullyDerived ==
    [][RefreshCompletes =>
          Range(upcomingEventTable') = Range(eventsToInsert)]_vars


\* the records of the source tables whose date does not parse
MalformedPeople == {person \in personTable : personThrows(person)}
MalformedCustomEvents == {event \in customEventTable : customEventThrows(event)}

\* the rows the loops compute for the fetched records that are not malformed
EventsOfValidRecords ==
    Range(peopleLoop(SelectSeq(people, LAMBDA person : ~personThrows(person)),
                     1, refToday, refEndDate))
      \cup Range(customEventsLoop(
                   SelectSeq(customEvents, LAMBDA event : ~customEventThrows(event)),
                   1, refToday, refEndDate))

\* C21: when exactly one input record has a date that does not parse, the
\* refresh does not abort, computes for all other people and custom events
\* the records it would compute without the bad record and none for the bad
\* one, and reports exactly one MalformedRecord warning.
C21_MalformedRecordSkipped ==
    (/\ Cardinality(MalformedPeople) + Cardinality(MalformedCustomEvents) = 1
     /\ refPc \in {"done", "failed"})
      => /\ refPc = "done"
         /\ Len(people) = Cardinality(personTable)
         /\ Len(customEvents) = Cardinality(customEventTable)
         /\ Range(eventsToInsert) = EventsOfValidRecords
         /\ Len(reportedWarnings) = 1


\* C22: for a non-yahrzeit event, a reference date that is the first day of a
\* Hebrew year and a window that ends 13 months later, the function returns
\* an occurrence (never null), the occurrence lies in the Hebrew year of the
\* reference date, and years = candidateYear - birthYear, the Hebrew year of
\* the occurrence minus the Hebrew year of the normalized original date.
C22_OccurrenceInReferenceYear ==
    (/\ pc = "done"
     /\ eventKind # "yahrzeit"
     /\ today.ms = 0
     /\ HDateFromGreg(today).mm = TISHREI
     /\ HDateFromGreg(today).dd = 1
     /\ endDate = addMonths(today, 13))
      => /\ result # null
         /\ HDateFromGreg(result.gregorianDate).yy = RefHebrewYear
         /\ result.years = RefHebrewYear - SpecOriginal.yy


\* the reverse of a relationship type as the note on the trigger gives it
Rev(relationship) ==
    CASE relationship = "parent" -> "child"
      [] relationship = "child" -> "parent"
      [] relationship = "grandparent" -> "grandchild"
      [] relationship = "grandchild" -> "grandparent"
      [] relationship = "aunt" -> "niece"
      [] relationship = "niece" -> "aunt"
      [] relationship = "uncle" -> "nephew"
      [] relationship = "nephew" -> "uncle"
      [] OTHER -> relationship

\* C23: after any sequence of inserts into relation, the table is closed
\* under reversal: for every row (A, B, r) there is a row (B, A, rev(r)).
C23_ClosedUnderReversal ==
    relDeletes = 0 =>
        \A row \in relationTable :
            RelationRow(row.to_person, row.from_person, Rev(row.relationship))
                \in relationTable

C23_Witness ==
    /\ relDeletes = 0
    /\ lastInsert # null
    /\ lastInsert.ok
    /\ lastInsert.inserts = 1
    /\ RelationRow(1, 2, "uncle") \in relationTable
    /\ RelationRow(2, 1, "nephew") \in relationTable
    /\ RelationRow(2, 1, "child") \in relationTable
    /\ Cardinality(relationTable) = 6


\* the rows the two loops compute when the fetched records come in the given
\* orders
EventsInOrder(peopleOrder, customEventsOrder) ==
    peopleLoop(peopleOrder, 1, refToday, refEndDate)
      \o customEventsLoop(customEventsOrder, 1, refToday, refEndDate)

\* C24: the output of a refresh does not depend on the order in which the
\* people and the custom events are processed: for every permutation of the
\* fetched people and custom events, with the same today and window, the set
\* of computed records (all fields) and the set of rows the cache holds
\* after the upsert are the same.
C24_OrderIndependent ==
    [][RefreshCompletes =>
          \A peopleOrder \in RowOrders(Range(people)),
             customEventsOrder \in RowOrders(Range(customEvents)) :
              /\ Range(EventsInOrder(peopleOrder, customEventsOrder))
                    = Range(eventsToInsert)
              /\ Range(upsert(upcomingEventTable,
                              EventsInOrder(peopleOrder, customEventsOrder)))
                    = Range(upcomingEventTable')]_vars

C24_Witness ==
    /\ refPc = "done"
    /\ Len(people) = 2
    /\ people[1].id = 2
    /\ Len(customEvents) = 2
    /\ customEvents[1].id = 2
    /\ Len(eventsToInsert) = 4
    /\ Range(upcomingEventTable) = Range(eventsToInsert)


\* the rows the completing upsert writes: none when the batch fails
RowsWritten ==
    IF hasDuplicateKeys(eventsToInsert) THEN {} ELSE Range(eventsToInsert)

\* C25: when a refresh run with reference date today completes, the cache
\* holds no row whose event_gregorian_date (a DATE) is earlier than the day
\* of today, and every row the run wrote has
\* today <= event_gregorian_date <= today + look-ahead window.
C25_NoPastRowsAfterRefresh ==
    [][RefreshCompletes =>
          /\ \A i \in DOMAIN upcomingEventTable' :
                greg2abs(upcomingEventTable'[i].event_gregorian_date)
                    >= greg2abs(refToday)
          /\ \A row \in RowsWritten :
                /\ DateLE(refToday, row.event_gregorian_date)
                /\ DateLE(row.event_gregorian_date,
                          addMonths(refToday, lookAheadMonths))]_vars

\* a second run has completed after time passed: a row of the first run
\* (the birthday of 14 Apr) was in the past and is gone, a row dated today
\* (the yahrzeit of 20 Apr) was kept, and the run wrote a row
C25_Witness ==
    /\ refPc = "done"
    /\ runs = 2
    /\ \E i \in DOMAIN cacheBefore :
          greg2abs(cacheBefore[i].event_gregorian_date) < greg2abs(refToday)
    /\ \E i \in DOMAIN upcomingEventTable :
          greg2abs(upcomingEventTable[i].event_gregorian_date) = greg2abs(refToday)
    /\ RowsWritten # {}
    /\ RowsWritten \subseteq Range(upcomingEventTable)


\* C26: the reverse-relation trigger ends and adds no duplicate: one INSERT
\* of a client causes at most one insert by the trigger (the reverse row; the
\* trigger fired for that row finds the client's row present); when the
\* reverse row is already there the trigger inserts nothing and the client's
\* insert still succeeds.
C26_AtMostOneTriggerInsert ==
    lastInsert # null =>
        /\ lastInsert.inserts <= 1
        /\ lastInsert.ok =>
              lastInsert.inserts = (IF lastInsert.reverseExisted THEN 0 ELSE 1)
        /\ (/\ lastInsert.reverseExisted
            /\ passesChecks(lastInsert.row)
            /\ ~lastInsert.rowExisted)
              => lastInsert.ok /\ lastInsert.inserts = 0

\* a row was deleted and its reverse left behind; the row is inserted again
C26_Witness ==
    /\ lastInsert # null
    /\ lastInsert.ok
    /\ lastInsert.reverseExisted
    /\ lastInsert.inserts = 0
    /\ lastInsert.row \in relationTable
    /\ relDeletes = 1


\* the this_* token of the family of a next_* token
ThisOf(token) ==
    CASE token = "next_week" -> "this_week"
      [] token = "next_month" -> "this_month"
      [] token = "next_hebrew_month" -> "this_hebrew_month"

\* C27: for each family (week, Gregorian month, Hebrew month) and every
\* today, the next_* range starts exactly one day after the this_* range for
\* the same today ends (the one ends with its day, the other starts with the
\* next day), so the two neither overlap nor leave a gap; and every range
\* returned has start <= end.
C27_NextFollowsThis ==
    (periodPc = "done" /\ dateRange # undefined) =>
        /\ DateLE(dateRange.start, dateRange.end)
        /\ period \in {"next_week", "next_month", "next_hebrew_month"} =>
              /\ greg2abs(dateRange.start)
                    = greg2abs(getPeriodDateRange(ThisOf(period), periodToday).end) + 1
              /\ dateRange.start.ms = 0
              /\ getPeriodDateRange(ThisOf(period), periodToday).end.ms = MsEndOfDay

\* next_month asked on 31 Jan 2024: February, not March
C27_Witness ==
    /\ periodPc = "done"
    /\ period = "next_month"
    /\ periodToday = [year |-> 2024, month |-> 1, day |-> 31, ms |-> 0]
    /\ dateRange.start = [year |-> 2024, month |-> 2, day |-> 1, ms |-> 0]
    /\ dateRange.end = [year |-> 2024, month |-> 2, day |-> 29, ms |-> MsEndOfDay]


\* the children of a node of the response (a cycle node has none)
ChildrenOf(node) == IF "children" \in DOMAIN node THEN node.children ELSE <<>>

\* the node was returned for a person found in visited
IsCycleNode(node) == "children" \notin DOMAIN node

RECURSIVE NodeCount(_)
RECURSIVE NodeCountOfAll(_, _)
\* number of nodes of a tree of the response (null: none)
NodeCount(node) ==
    IF node = null THEN 0 ELSE 1 + NodeCountOfAll(ChildrenOf(node), 1)

NodeCountOfAll(nodes, i) ==
    IF i > Len(nodes) THEN 0 ELSE NodeCount(nodes[i]) + NodeCountOfAll(nodes, i + 1)

RECURSIVE ExpansionsOf(_, _)
RECURSIVE ExpansionsOfAll(_, _, _)
\* number of nodes of the tree at which the person of that name was expanded
ExpansionsOf(node, name) ==
    IF node = null THEN 0
    ELSE (IF ~IsCycleNode(node) /\ node.name = name THEN 1 ELSE 0)
           + ExpansionsOfAll(ChildrenOf(node), 1, name)

ExpansionsOfAll(nodes, i, name) ==
    IF i > Len(nodes) THEN 0
    ELSE ExpansionsOf(nodes[i], name) + ExpansionsOfAll(nodes, i + 1, name)

\* the child relations of the data set
ChildRelations == {rel \in relationTable : rel.relationship = "child"}

\* C28: buildTree ends for every finite data set, also when the child
\* relations form cycles: the handler responds, each person is expanded at
\* most once per request, and the tree returned has at most as many nodes
\* as there are child relations, plus one.
C28_TreeBounded ==
    treePc = "done" =>
        /\ \A person \in FamilyPersons :
              ExpansionsOf(treeResponse.tree, nameOf(person)) <= 1
        /\ NodeCount(treeResponse.tree) <= Cardinality(ChildRelations) + 1

\* 1 -> 2 -> 3 -> 1 and 1 -> 3: every person is part of a cycle, the tree
\* has the five nodes the bound allows
C28_Witness ==
    /\ treePc = "done"
    /\ ChildRelations = {RelationRow(1, 2, "child"), RelationRow(2, 3, "child"),
                         RelationRow(3, 1, "child"), RelationRow(1, 3, "child")}
    /\ treeResponse.tree # null
    /\ treeResponse.tree.name = nameOf(FamilyPerson(1))
    /\ NodeCount(treeResponse.tree) = 5

RECURSIVE CycleNodesOnPath(_, _)
\* every node with the '(cycle)' suffix names a person that is on the path
\* from the root to that node
CycleNodesOnPath(node, path) ==
    IF IsCycleNode(node)
    THEN \E name \in path : node.name = name \o <<"(cycle)">>
    ELSE \A i \in DOMAIN node.children :
            CycleNodesOnPath(node.children[i], path \cup {node.name})

\* C29: buildTree gives a node the '(cycle)' suffix only when the person is
\* their own descendant, i.e. is already on the path from the root to that
\* node; a person reached a second time through another branch, without a
\* cycle in the child relations, is a normal node.
C29_CycleLabelOnlyOnPath ==
    (treePc = "done" /\ treeResponse.tree # null) =>
        CycleNodesOnPath(treeResponse.tree, {})

\* the latest run of the effect is live: the component is mounted, the run
\* was not cleaned up, and it was started for the current rootName
LatestRunLive(i) ==
    /\ viewMounted
    /\ i = Len(viewEffects)
    /\ ~viewEffects[i].cancelled
    /\ viewEffects[i].rootName = viewRootName

\* C30: a response that arrives after its effect was cleaned up (rootName
\* changed, or the component was unmounted) never changes tree or error:
\* whenever tree changes, the new value is the data of the request of the
\* latest run, which is not cancelled and was issued for the current
\* rootName; whenever error changes, it is either cleared by a run that just
\* started or set to the error of the request of that latest live run.
C30_OnlyCurrentRequestUpdates ==
    [][ /\ viewTree' # viewTree =>
            /\ viewTree' # null => viewTree'.request = Len(viewEffects)
            /\ LatestRunLive(Len(viewEffects))
            /\ viewEffects[Len(viewEffects)].pc = "json"
            /\ viewEffects'[Len(viewEffects)].pc = "done"
        /\ viewError' # viewError =>
            \/ /\ viewError' = null
               /\ Len(viewEffects') = Len(viewEffects) + 1
            \/ /\ viewError' = ErrorMessage(Len(viewEffects))
               /\ LatestRunLive(Len(viewEffects))
               /\ viewEffects'[Len(viewEffects)].pc = "done" ]_vars

\* the response to the first request arrived with a tree after rootName
\* changed, and later the second request's tree was shown
C30_Witness ==
    /\ Len(viewEffects) = 2
    /\ viewEffects[1].cancelled
    /\ viewEffects[1].pc = "done"
    /\ viewEffects[1].received = "tree"
    /\ viewEffects[2].received = "tree"
    /\ viewMounted
    /\ viewTree = TreeData(2, viewRootName)
    /\ viewError = null

=============================================================================
